---------------------------- MODULE Spec2Model ----------------------------
(***************************************************************************)
(* Verification model of mdvim-monaco (src/src/main.ts): the live preview  *)
(* pipeline and the bidirectional scroll synchronizer.                     *)
(*                                                                         *)
(* Numbers that JavaScript computes in floating point (interpolated scroll *)
(* offsets) are modelled as exact rationals [num, den] with den > 0.       *)
(* Strings are sequences of one-character strings.                         *)
(***************************************************************************)
EXTENDS Integers, Sequences, FiniteSets, TLC

VARIABLES
    \* ---- scroll synchronizer (main.ts 4877-4885, settings.viewMode) ----
    viewMode,          \* settings.viewMode
    scrollSyncLock,    \* 'editor' | 'preview' | null
    scrollSyncRaf,     \* handle of the pending sync frame, 0 = null
    rafQueue,          \* callbacks registered with requestAnimationFrame
    frameQueue,        \* callbacks of the animation frame now running
    editorTop,         \* editor.getScrollTop()
    previewTop,        \* preview.scrollTop
    scrollEvt,         \* per view: scroll event raised but not yet dispatched
    previewLineMap,    \* Array<{line, top}>
    framesSinceAccept, \* history: frames begun since the last accepted event
    lastEvent,         \* history: outcome of the last scheduleScrollSync call
    echoAccepted,      \* history: an echo event got past the drive lock
    burstAccepted,     \* history: events accepted since the last frame began
    \* ---- project (main.ts 316-330, 431-445) ----
    projectState,      \* files, manifest, activeFileId, the editor's value
    archive,           \* the project file saveProject wrote
    \* ---- preview rendering (main.ts 4873, 4893-4896, 5159-5169) ----
    render,            \* timers, diagram tasks and cycles of the preview
    \* ---- pure-function harness ----
    pc,                \* position of the harness: "input" or "done"
    arg,               \* the input drawn by Init
    res                \* the value the operation under test produced

vars == <<viewMode, scrollSyncLock, scrollSyncRaf, rafQueue, frameQueue,
          editorTop, previewTop, scrollEvt, previewLineMap, framesSinceAccept,
          lastEvent, echoAccepted, burstAccepted, projectState, archive,
          render, pc, arg, res>>

(***************************************************************************)
(* Bounds                                                                  *)
(***************************************************************************)
MaxScrollSteps == 3
LineHeight == 4
MaxFrames == 2
MaxBurst == 2
MaxLine == 4
MaxAnchors == 3
MaxElements == 3
MaxElementLine == 3
MaxDocLen == 5
MaxMathLen == 5
MaxBlocks == 5

(***************************************************************************)
(* Arithmetic helpers                                                      *)
(***************************************************************************)
Min(a, b) == IF a <= b THEN a ELSE b
Max(a, b) == IF a >= b THEN a ELSE b

\* a / b as an exact rational with a positive denominator (b # 0)
Rat(a, b) == IF b < 0 THEN [num |-> -a, den |-> -b] ELSE [num |-> a, den |-> b]
RatInt(a) == [num |-> a, den |-> 1]
RatLe(x, y) == x.num * y.den <= y.num * x.den
RatEq(x, y) == x.num * y.den = y.num * x.den
RatMin(x, y) == IF RatLe(x, y) THEN x ELSE y
RatMax(x, y) == IF RatLe(y, x) THEN x ELSE y
\* Math.floor and Math.round (round half up) of a rational
RatFloor(x) == x.num \div x.den
RatRound(x) == (2 * x.num + x.den) \div (2 * x.den)
\* Math.abs(x - c) < h for rational x and integers c, h
RatAbsDiffLt(x, c, h) ==
    /\ x.num - c * x.den < h * x.den
    /\ c * x.den - x.num < h * x.den

SCROLL_HYSTERESIS_PX == 8

(***************************************************************************)
(* Interpolation over the preview line map (main.ts 4616-4677)             *)
(***************************************************************************)
RECURSIVE PreviewAnchorLoop(_, _, _, _, _)
PreviewAnchorLoop(map, editorLine, i, lower, upper) ==
    IF i > Len(map) THEN <<lower, upper>>
    ELSE LET lo == IF map[i].line <= editorLine THEN map[i] ELSE lower
         IN  IF map[i].line >= editorLine
                /\ (upper.line > editorLine \/ i = Len(map))
             THEN <<lo, map[i]>>
             ELSE PreviewAnchorLoop(map, editorLine, i + 1, lo, upper)

\* the anchors <<lower, upper>> chosen by interpolatePreviewPosition
PreviewAnchors(map, editorLine) ==
    PreviewAnchorLoop(map, editorLine, 1, map[1], map[Len(map)])

\* an interpolation that forgets to subtract the lower anchor's line
InterpolatedTop_NoOffset(map, editorLine) ==
    LET a == PreviewAnchors(map, editorLine)
        lower == a[1]
        upper == a[2]
    IN  IF lower.line = upper.line THEN RatInt(lower.top)
        ELSE Rat(lower.top * (upper.line - lower.line)
                   + editorLine * (upper.top - lower.top),
                 upper.line - lower.line)

\* the target offset before it is clamped
InterpolatedTop(map, editorLine) ==
    LET a == PreviewAnchors(map, editorLine)
        lower == a[1]
        upper == a[2]
    IN  IF lower.line = upper.line THEN RatInt(lower.top)
        ELSE Rat(lower.top * (upper.line - lower.line)
                   + (editorLine - lower.line) * (upper.top - lower.top),
                 upper.line - lower.line)

\* an interpolatePreviewPosition that keeps the same-anchor return at or
\* above 0 too
interpolatePreviewPosition_ClampZero(map, editorLine, previewMaxScroll) ==
    IF Len(map) < 2 THEN "null"
    ELSE RatMax(RatInt(0),
                RatMin(InterpolatedTop(map, editorLine),
                       RatInt(previewMaxScroll)))

\* interpolatePreviewPosition; "null" when the map has fewer than 2 anchors
interpolatePreviewPosition(map, editorLine, previewMaxScroll) ==
    IF Len(map) < 2 THEN "null"
    ELSE LET a == PreviewAnchors(map, editorLine)
             lower == a[1]
             upper == a[2]
         IN  IF lower.line = upper.line
             THEN RatInt(Min(lower.top, previewMaxScroll))
             ELSE RatMax(RatInt(0),
                         RatMin(InterpolatedTop(map, editorLine),
                                RatInt(previewMaxScroll)))

\* an anchor search that does not break at the first anchor at or below
\* the offset
RECURSIVE EditorAnchorLoop_NoBreak(_, _, _, _, _)
EditorAnchorLoop_NoBreak(map, previewScrollTop, i, lower, upper) ==
    IF i > Len(map) THEN <<lower, upper>>
    ELSE EditorAnchorLoop_NoBreak(map, previewScrollTop, i + 1,
             IF map[i].top <= previewScrollTop THEN map[i] ELSE lower,
             IF map[i].top >= previewScrollTop THEN map[i] ELSE upper)

RECURSIVE EditorAnchorLoop(_, _, _, _, _)
EditorAnchorLoop(map, previewScrollTop, i, lower, upper) ==
    IF i > Len(map) THEN <<lower, upper>>
    ELSE LET lo == IF map[i].top <= previewScrollTop THEN map[i] ELSE lower
         IN  IF map[i].top >= previewScrollTop
             THEN <<lo, map[i]>>
             ELSE EditorAnchorLoop(map, previewScrollTop, i + 1, lo, upper)

EditorAnchors(map, previewScrollTop) ==
    EditorAnchorLoop(map, previewScrollTop, 1, map[1], map[Len(map)])

\* interpolateEditorLine; "null" when the map has fewer than 2 anchors
interpolateEditorLine(map, previewScrollTop) ==
    IF Len(map) < 2 THEN "null"
    ELSE LET a == EditorAnchors(map, previewScrollTop)
             lower == a[1]
             upper == a[2]
         IN  IF lower.top = upper.top THEN lower.line
             ELSE RatRound(Rat(lower.line * (upper.top - lower.top)
                                 + (previewScrollTop - lower.top)
                                   * (upper.line - lower.line),
                               upper.top - lower.top))


(***************************************************************************)
(* The two scrollable views as the synchronizer sees them                  *)
(***************************************************************************)
Views == {"editor", "preview"}
Other(v) == IF v = "editor" THEN "preview" ELSE "editor"

\* scrollHeight - clientHeight of each view
EditorMaxScroll == MaxScrollSteps * LineHeight
PreviewMaxScroll == 2 * EditorMaxScroll

\* offsets a user can scroll a view to
Positions(v) ==
    IF v = "editor" THEN {k * LineHeight : k \in 0..MaxScrollSteps}
    ELSE {k * LineHeight : k \in 0..(2 * MaxScrollSteps)}

\* assigning x to a view's scroll offset: the view keeps a whole pixel
\* inside its scroll range
SetScrollTop(x, maxScroll) == Max(0, Min(RatFloor(x), maxScroll))

\* editor.getVisibleRanges()[0].startLineNumber
TopLine(top) == top \div LineHeight + 1
\* editor.getTopForLineNumber(line)
getTopForLineNumber(line) == (line - 1) * LineHeight

\* a line map as rebuildPreviewLineMap leaves it for a laid-out document
ScrollMap ==
    <<[line |-> 1, top |-> 0],
      [line |-> MaxScrollSteps + 1, top |-> PreviewMaxScroll]>>

\* syncScrollFromEditor without the hysteresis guard
syncScrollFromEditor_NoHysteresis(mode, map, eTop, pTop) ==
    IF mode # "split" THEN pTop
    ELSE IF Len(map) >= 2
    THEN SetScrollTop(interpolatePreviewPosition(map, TopLine(eTop),
                                                 PreviewMaxScroll),
                      PreviewMaxScroll)
    ELSE SetScrollTop(IF EditorMaxScroll > 0
                      THEN Rat(eTop * PreviewMaxScroll, EditorMaxScroll)
                      ELSE RatInt(0),
                      PreviewMaxScroll)

\* syncScrollFromEditor: the preview's scroll offset after the call
syncScrollFromEditor(mode, map, eTop, pTop) ==
    IF mode # "split" THEN pTop
    ELSE IF Len(map) >= 2
    THEN LET targetTop ==
                 interpolatePreviewPosition(map, TopLine(eTop), PreviewMaxScroll)
         IN  IF RatAbsDiffLt(targetTop, pTop, SCROLL_HYSTERESIS_PX) THEN pTop
             ELSE SetScrollTop(targetTop, PreviewMaxScroll)
    ELSE LET targetTop == IF EditorMaxScroll > 0
                          THEN Rat(eTop * PreviewMaxScroll, EditorMaxScroll)
                          ELSE RatInt(0)
         IN  IF RatAbsDiffLt(targetTop, pTop, SCROLL_HYSTERESIS_PX) THEN pTop
             ELSE SetScrollTop(targetTop, PreviewMaxScroll)

\* syncScrollFromPreview: the editor's scroll offset after the call
syncScrollFromPreview(mode, map, eTop, pTop) ==
    IF mode # "split" THEN eTop
    ELSE IF Len(map) >= 2
    THEN LET targetTop == RatInt(getTopForLineNumber(interpolateEditorLine(map, pTop)))
         IN  IF RatAbsDiffLt(targetTop, eTop, SCROLL_HYSTERESIS_PX) THEN eTop
             ELSE SetScrollTop(targetTop, EditorMaxScroll)
    ELSE LET targetTop == IF PreviewMaxScroll > 0
                          THEN Rat(pTop * EditorMaxScroll, PreviewMaxScroll)
                          ELSE RatInt(0)
         IN  IF RatAbsDiffLt(targetTop, eTop, SCROLL_HYSTERESIS_PX) THEN eTop
             ELSE SetScrollTop(targetTop, EditorMaxScroll)

(***************************************************************************)
(* requestAnimationFrame / cancelAnimationFrame                            *)
(***************************************************************************)
Handles(q) == {q[i].h : i \in 1..Len(q)}
\* a handle no registered callback uses
FreshHandle(q, fq) ==
    CHOOSE h \in 1..(Len(q) + Len(fq) + 1) :
        /\ h \notin Handles(q) \cup Handles(fq)
        /\ \A g \in 1..(h - 1) : g \in Handles(q) \cup Handles(fq)
RECURSIVE CancelHandle(_, _)
CancelHandle(q, h) ==
    IF q = <<>> THEN <<>>
    ELSE IF Head(q).h = h THEN CancelHandle(Tail(q), h)
    ELSE <<Head(q)>> \o CancelHandle(Tail(q), h)

\* the synchronizer's state as one record, threaded through a handler
SyncState ==
    [lock |-> scrollSyncLock, raf |-> scrollSyncRaf, q |-> rafQueue,
     fq |-> frameQueue, fsa |-> framesSinceAccept, last |-> lastEvent,
     echo |-> echoAccepted, burst |-> burstAccepted]

\* scheduleScrollSync without the check of the drive lock
scheduleScrollSync_NoLockCheck(st, mode, source, isEcho) ==
    IF mode # "split" THEN [st EXCEPT !.last = "ignored"]
    ELSE LET q1 == IF st.raf # 0 THEN CancelHandle(st.q, st.raf) ELSE st.q
             fq1 == IF st.raf # 0 THEN CancelHandle(st.fq, st.raf) ELSE st.fq
             h == FreshHandle(q1, fq1)
         IN  [lock |-> source, raf |-> h,
              q |-> Append(q1, [h |-> h, kind |-> "sync", source |-> source]),
              fq |-> fq1, fsa |-> 0, last |-> "accepted",
              echo |-> st.echo \/ isEcho,
              burst |-> Min(st.burst + 1, MaxBurst)]

\* scheduleScrollSync without cancelAnimationFrame: the frame requested
\* before stays registered
scheduleScrollSync_NoCancel(st, mode, source, isEcho) ==
    IF mode # "split" THEN [st EXCEPT !.last = "ignored"]
    ELSE IF st.lock # "null" /\ st.lock # source
    THEN [st EXCEPT !.last = "dropped"]
    ELSE LET h == FreshHandle(st.q, st.fq)
         IN  [lock |-> source, raf |-> h,
              q |-> Append(st.q, [h |-> h, kind |-> "sync", source |-> source]),
              fq |-> st.fq, fsa |-> 0, last |-> "accepted",
              echo |-> st.echo \/ isEcho,
              burst |-> Min(st.burst + 1, MaxBurst)]

\* scheduleScrollSync(source), main.ts 4512-4537; isEcho tells whether the
\* event was raised by a sync's own assignment to the view's offset
scheduleScrollSync(st, mode, source, isEcho) ==
    IF mode # "split" THEN [st EXCEPT !.last = "ignored"]
    ELSE IF st.lock # "null" /\ st.lock # source
    THEN [st EXCEPT !.last = "dropped"]
    ELSE LET q1 == IF st.raf # 0 THEN CancelHandle(st.q, st.raf) ELSE st.q
             fq1 == IF st.raf # 0 THEN CancelHandle(st.fq, st.raf) ELSE st.fq
             h == FreshHandle(q1, fq1)
         IN  [lock |-> source, raf |-> h,
              q |-> Append(q1, [h |-> h, kind |-> "sync", source |-> source]),
              fq |-> fq1, fsa |-> 0, last |-> "accepted",
              echo |-> st.echo \/ isEcho,
              burst |-> Min(st.burst + 1, MaxBurst)]

SetSyncState(st) ==
    /\ scrollSyncLock' = st.lock
    /\ scrollSyncRaf' = st.raf
    /\ rafQueue' = st.q
    /\ frameQueue' = st.fq
    /\ framesSinceAccept' = st.fsa
    /\ lastEvent' = st.last
    /\ echoAccepted' = st.echo
    /\ burstAccepted' = st.burst

(***************************************************************************)
(* Actions of the scroll synchronizer                                      *)
(***************************************************************************)
\* the user (or any other code) scrolls view v; the view raises a scroll event
UserScroll(v, pos) ==
    /\ pc = "scroll"
    /\ frameQueue = <<>>
    /\ pos \in Positions(v)
    /\ IF v = "editor"
       THEN pos # editorTop /\ editorTop' = pos /\ previewTop' = previewTop
       ELSE pos # previewTop /\ previewTop' = pos /\ editorTop' = editorTop
    /\ scrollEvt' = [scrollEvt EXCEPT ![v] = "user"]
    /\ UNCHANGED <<projectState, archive, render, burstAccepted, viewMode,
                   scrollSyncLock, scrollSyncRaf, rafQueue, frameQueue,
                   previewLineMap, framesSinceAccept, lastEvent,
                   echoAccepted, pc, arg, res>>

\* the scroll listener of view v runs (main.ts 4295-4307)
DispatchScroll(v) ==
    /\ pc = "scroll"
    /\ frameQueue = <<>>
    /\ scrollEvt[v] # "none"
    /\ SetSyncState(scheduleScrollSync(SyncState, viewMode, v, scrollEvt[v] = "echo"))
    /\ scrollEvt' = [scrollEvt EXCEPT ![v] = "none"]
    /\ UNCHANGED <<projectState, archive, render, viewMode, editorTop,
                   previewTop, previewLineMap, pc, arg, res>>

\* setViewMode(mode), main.ts 4442-4452
setViewMode(mode) ==
    /\ pc = "scroll"
    /\ frameQueue = <<>>
    /\ mode # viewMode
    /\ viewMode' = mode
    /\ UNCHANGED <<projectState, archive, render, burstAccepted,
                   scrollSyncLock, scrollSyncRaf, rafQueue, frameQueue,
                   editorTop, previewTop, scrollEvt, previewLineMap,
                   framesSinceAccept, lastEvent, echoAccepted, pc, arg,
                   res>>

\* an animation frame begins: pending scroll events have been dispatched,
\* the registered callbacks become the frame's callback list
BeginFrame ==
    /\ pc = "scroll"
    /\ frameQueue = <<>>
    /\ \A v \in Views : scrollEvt[v] = "none"
    /\ frameQueue' = rafQueue
    /\ rafQueue' = <<>>
    /\ framesSinceAccept' = Min(framesSinceAccept + 1, MaxFrames)
    /\ burstAccepted' = 0
    /\ UNCHANGED <<projectState, archive, render, viewMode, scrollSyncLock,
                   scrollSyncRaf, editorTop, previewTop, scrollEvt,
                   previewLineMap, lastEvent, echoAccepted, pc, arg,
                   res>>

\* the callback registered at main.ts 4523 runs
RunSyncCallback ==
    /\ pc = "scroll"
    /\ frameQueue # <<>>
    /\ Head(frameQueue).kind = "sync"
    /\ LET source == Head(frameQueue).source
           st1 == [SyncState EXCEPT !.raf = 0, !.fq = Tail(frameQueue)]
           newPreviewTop ==
               IF source = "editor"
               THEN syncScrollFromEditor(viewMode, previewLineMap, editorTop, previewTop)
               ELSE previewTop
           newEditorTop ==
               IF source = "preview"
               THEN syncScrollFromPreview(viewMode, previewLineMap, editorTop, previewTop)
               ELSE editorTop
       IN  /\ previewTop' = newPreviewTop
           /\ editorTop' = newEditorTop
           /\ \E inline \in BOOLEAN :
                LET editorEcho == newEditorTop # editorTop
                    st2 == IF editorEcho /\ inline
                           THEN scheduleScrollSync(st1, viewMode, "editor", TRUE)
                           ELSE st1
                    st3 == [st2 EXCEPT !.q =
                              Append(st2.q, [h |-> FreshHandle(st2.q, st2.fq),
                                             kind |-> "release",
                                             source |-> source])]
                IN  /\ SetSyncState(st3)
                    /\ scrollEvt' =
                         [v \in Views |->
                            IF v = "preview" /\ newPreviewTop # previewTop
                               /\ scrollEvt[v] = "none" THEN "echo"
                            ELSE IF v = "editor" /\ editorEcho /\ ~inline
                               /\ scrollEvt[v] = "none" THEN "echo"
                            ELSE scrollEvt[v]]
    /\ UNCHANGED <<projectState, archive, render, viewMode, previewLineMap,
                   pc, arg, res>>

\* a release callback that forgets to clear the lock
RunReleaseCallback_KeepLock ==
    /\ pc = "scroll"
    /\ frameQueue # <<>>
    /\ Head(frameQueue).kind = "release"
    /\ frameQueue' = Tail(frameQueue)
    /\ UNCHANGED <<projectState, archive, render, burstAccepted, viewMode,
                   scrollSyncLock, scrollSyncRaf, rafQueue, editorTop,
                   previewTop, scrollEvt, previewLineMap,
                   framesSinceAccept, lastEvent, echoAccepted, pc, arg,
                   res>>

\* the callback registered at main.ts 4533 runs
RunReleaseCallback ==
    /\ pc = "scroll"
    /\ frameQueue # <<>>
    /\ Head(frameQueue).kind = "release"
    /\ scrollSyncLock' = "null"
    /\ frameQueue' = Tail(frameQueue)
    /\ UNCHANGED <<projectState, archive, render, burstAccepted, viewMode,
                   scrollSyncRaf, rafQueue, editorTop, previewTop,
                   scrollEvt, previewLineMap, framesSinceAccept,
                   lastEvent, echoAccepted, pc, arg, res>>

InitScroll ==
    /\ viewMode = "split"
    /\ burstAccepted = 0
    /\ projectState = [isProject |-> FALSE]
    /\ archive = [written |-> FALSE]
    /\ render = [active |-> FALSE]
    /\ scrollSyncLock = "null"
    /\ scrollSyncRaf = 0
    /\ rafQueue = <<>>
    /\ frameQueue = <<>>
    /\ editorTop = 0
    /\ previewTop = 0
    /\ scrollEvt = [v \in Views |-> "none"]
    /\ previewLineMap \in {<<>>, ScrollMap}
    /\ framesSinceAccept = MaxFrames
    /\ lastEvent = "none"
    /\ echoAccepted = FALSE
    /\ pc = "scroll"
    /\ arg = <<>>
    /\ res = <<>>

NextScroll ==
    \/ \E v \in Views : \E pos \in Positions(v) : UserScroll(v, pos)
    \/ \E v \in Views : DispatchScroll(v)
    \/ \E mode \in {"editor", "split", "preview"} : setViewMode(mode)
    \/ BeginFrame
    \/ RunSyncCallback
    \/ RunReleaseCallback

SpecScroll == InitScroll /\ [][NextScroll]_vars

(***************************************************************************)
(* C1: a scroll event from view V that is dispatched while the opposite    *)
(* view holds the drive lock is dropped: the lock holder, the pending sync *)
(* frame, the registered callbacks and both scroll offsets stay as they    *)
(* are, and the event is gone (not kept for later).                        *)
(***************************************************************************)
C1_DroppedEvent ==
    [][\A v \in Views :
         (scrollEvt[v] # "none" /\ scrollEvt'[v] = "none"
            /\ scrollSyncLock = Other(v))
         => /\ scrollSyncLock' = scrollSyncLock
            /\ scrollSyncRaf' = scrollSyncRaf
            /\ rafQueue' = rafQueue
            /\ frameQueue' = frameQueue
            /\ editorTop' = editorTop
            /\ previewTop' = previewTop
            /\ scrollEvt'[Other(v)] = scrollEvt[Other(v)]]_vars

C1_Witness ==
    /\ lastEvent = "dropped"
    /\ scrollSyncLock # "null"
    /\ \A v \in Views : scrollEvt[v] = "none"

(***************************************************************************)
(* C2: the scroll event raised by a sync's own assignment to the other     *)
(* view's offset never acquires the drive lock.                            *)
(***************************************************************************)
C2_NoMutualTriggering == echoAccepted = FALSE

(***************************************************************************)
(* C3: once two animation frames have begun and finished after the last    *)
(* accepted scroll event, the drive lock is null and no sync frame is      *)
(* pending.                                                                *)
(***************************************************************************)
C3_LockReleasedInTwoFrames ==
    (framesSinceAccept >= 2 /\ frameQueue = <<>>)
    => (scrollSyncLock = "null" /\ scrollSyncRaf = 0 /\ rafQueue = <<>>)

C3_Witness ==
    /\ framesSinceAccept >= 2
    /\ frameQueue = <<>>
    /\ lastEvent = "accepted"
    /\ scrollSyncLock = "null"
    /\ \A v \in Views : scrollEvt[v] = "none"
    /\ editorTop >= SCROLL_HYSTERESIS_PX
    /\ previewTop = 2 * editorTop


(***************************************************************************)
(* Harness for the pure operations: Init draws an input, one action        *)
(* applies the operation to it.  The synchronizer stays as constructed.    *)
(***************************************************************************)
IdleScroll ==
    /\ viewMode = "split"
    /\ burstAccepted = 0
    /\ projectState = [isProject |-> FALSE]
    /\ archive = [written |-> FALSE]
    /\ render = [active |-> FALSE]
    /\ scrollSyncLock = "null"
    /\ scrollSyncRaf = 0
    /\ rafQueue = <<>>
    /\ frameQueue = <<>>
    /\ editorTop = 0
    /\ scrollEvt = [v \in Views |-> "none"]
    /\ framesSinceAccept = MaxFrames
    /\ lastEvent = "none"
    /\ echoAccepted = FALSE

(***************************************************************************)
(* interpolatePreviewPosition on bounded line maps                         *)
(***************************************************************************)
\* the line map with lines ls[1..n] and tops ts[1..n]
MakeLineMap(n, ls, ts) == [i \in 1..n |-> [line |-> ls[i], top |-> ts[i]]]

\* the map of the specification's example
ExampleMap ==
    <<[line |-> 1, top |-> 0], [line |-> 50, top |-> 500],
      [line |-> 100, top |-> 1200]>>

InitInterp ==
    /\ IdleScroll
    /\ previewTop = 0
    /\ previewLineMap = <<>>
    /\ pc = "input"
    /\ \/ arg \in [map : {ExampleMap}, line : {1, 25, 50, 75, 100, 101},
                    maxScroll : {200, 2000}]
       \/ \E n \in 2..MaxAnchors : \E ls \in [1..n -> 1..MaxLine] :
             /\ \A i \in 1..(n - 1) : ls[i] < ls[i + 1]
             /\ \E ts \in [1..n -> {-8, 0, 8, 40}] :
                  \E L \in 0..(MaxLine + 1) : \E m \in {0, 16} :
                     arg = [map |-> MakeLineMap(n, ls, ts), line |-> L,
                            maxScroll |-> m]
    /\ res = "none"

\* syncScrollFromEditor's call at main.ts 4553 on the drawn map and line
CallInterpolatePreviewPosition ==
    /\ pc = "input"
    /\ previewLineMap' = arg.map
    /\ res' = [top |-> interpolatePreviewPosition(arg.map, arg.line, arg.maxScroll),
               raw |-> InterpolatedTop(arg.map, arg.line)]
    /\ pc' = "done"
    /\ UNCHANGED <<projectState, archive, render, burstAccepted, viewMode,
                   scrollSyncLock, scrollSyncRaf, rafQueue, frameQueue,
                   editorTop, previewTop, scrollEvt, framesSinceAccept,
                   lastEvent, echoAccepted, arg>>

SpecInterp == InitInterp /\ [][CallInterpolatePreviewPosition]_vars

\* the value the specification prescribes for line L over map m
PrescribedTop(m, L) ==
    IF \E i \in 1..Len(m) : m[i].line = L
    THEN RatInt(m[CHOOSE i \in 1..Len(m) : m[i].line = L].top)
    ELSE IF L < m[1].line THEN RatInt(m[1].top)
    ELSE IF L > m[Len(m)].line THEN RatInt(m[Len(m)].top)
    ELSE LET i == CHOOSE k \in 1..(Len(m) - 1) :
                      m[k].line < L /\ L < m[k + 1].line
         IN  Rat(m[i].top * (m[i + 1].line - m[i].line)
                   + (L - m[i].line) * (m[i + 1].top - m[i].top),
                 m[i + 1].line - m[i].line)

(***************************************************************************)
(* C8: with at least 2 anchors the target for editor line L is, before     *)
(* clamping, the top of the anchor at L, or the linear interpolation       *)
(* between the adjacent anchors around L, or the first (last) anchor's top *)
(* when L is before (after) all anchors; the returned value is that target *)
(* whenever the target lies inside the scroll range.  Anchors              *)
(* (1,0),(50,500),(100,1200) and L = 25 give 24/49 * 500.                  *)
(***************************************************************************)
C8_InterpolationValue ==
    pc = "done" =>
        /\ RatEq(res.raw, PrescribedTop(arg.map, arg.line))
        /\ (RatLe(RatInt(0), res.raw) /\ RatLe(res.raw, RatInt(arg.maxScroll)))
              => RatEq(res.top, res.raw)
        /\ (arg.map = ExampleMap /\ arg.line = 25)
              => RatEq(res.raw, Rat(24 * 500, 49)) /\ RatFloor(res.raw) = 244

C8_Witness ==
    /\ pc = "done"
    /\ arg.map = ExampleMap
    /\ arg.line = 25
    /\ arg.maxScroll = 2000
    /\ RatEq(res.top, Rat(12000, 49))

(***************************************************************************)
(* C9: the offset returned by interpolatePreviewPosition lies within       *)
(* [0, maxPreviewScroll] on every return path.                             *)
(***************************************************************************)
C9_InterpolationClamp ==
    pc = "done" =>
        /\ RatLe(RatInt(0), res.top)
        /\ RatLe(res.top, RatInt(arg.maxScroll))

(***************************************************************************)
(* rebuildPreviewLineMap (main.ts 4679-4707)                               *)
(***************************************************************************)
\* the comparator of map.sort: (a.line - b.line) || (a.top - b.top)
AnchorCompare(a, b) ==
    IF a.line - b.line # 0 THEN a.line - b.line ELSE a.top - b.top

\* Array.prototype.sort with AnchorCompare (stable)
RECURSIVE InsertAnchor(_, _)
InsertAnchor(sorted, item) ==
    IF sorted = <<>> THEN <<item>>
    ELSE IF AnchorCompare(item, Head(sorted)) < 0 THEN <<item>> \o sorted
    ELSE <<Head(sorted)>> \o InsertAnchor(Tail(sorted), item)
RECURSIVE SortAnchors(_)
SortAnchors(map) ==
    IF map = <<>> THEN <<>>
    ELSE InsertAnchor(SortAnchors(SubSeq(map, 1, Len(map) - 1)), map[Len(map)])

\* a dedupe that keeps the last item of each line
RECURSIVE DedupeAnchors_KeepLast(_, _)
DedupeAnchors_KeepLast(map, deduped) ==
    IF map = <<>> THEN deduped
    ELSE IF deduped # <<>> /\ deduped[Len(deduped)].line = Head(map).line
    THEN DedupeAnchors_KeepLast(Tail(map),
                                Append(SubSeq(deduped, 1, Len(deduped) - 1), Head(map)))
    ELSE DedupeAnchors_KeepLast(Tail(map), Append(deduped, Head(map)))

\* the loop at main.ts 4700-4704: keep the first item of each line
RECURSIVE DedupeAnchors(_, _)
DedupeAnchors(map, deduped) ==
    IF map = <<>> THEN deduped
    ELSE IF deduped # <<>> /\ deduped[Len(deduped)].line = Head(map).line
    THEN DedupeAnchors(Tail(map), deduped)
    ELSE DedupeAnchors(Tail(map), Append(deduped, Head(map)))

\* the loop at main.ts 4686-4695 over the elements with a data-src-line
\* attribute: attr is the number parseInt reads from the attribute, finite
\* is FALSE when the attribute is empty or not a number; y is the element's
\* position in the content, rect.top what getBoundingClientRect reports for
\* the current scroll offset
RECURSIVE CollectAnchors(_, _, _)
CollectAnchors(els, rectTop, scrollTop) ==
    IF els = <<>> THEN <<>>
    ELSE LET el == Head(els)
             rect == [top |-> rectTop + el.y - scrollTop]
             rest == CollectAnchors(Tail(els), rectTop, scrollTop)
         IN  IF ~el.finite THEN rest
             ELSE <<[line |-> el.attr,
                     top |-> (rect.top - rectTop) + scrollTop]>> \o rest

LineMapOf(els, rectTop, scrollTop) ==
    DedupeAnchors(SortAnchors(CollectAnchors(els, rectTop, scrollTop)), <<>>)

Elements ==
    [attr : 1..MaxElementLine, finite : {TRUE}, y : {0, 8, 16}]
    \cup [attr : {0}, finite : {FALSE}, y : {0}]
\* preview.getBoundingClientRect().top

InitLineMap ==
    /\ IdleScroll
    /\ previewTop \in {0, 8}
    /\ previewLineMap = <<>>
    /\ pc = "input"
    /\ \E n \in 0..MaxElements : \E els \in [1..n -> Elements] :
          \E rectTop \in {40} :
             arg = [els |-> els, rectTop |-> rectTop]
    /\ res = "none"

rebuildPreviewLineMap ==
    /\ pc = "input"
    /\ previewLineMap' = LineMapOf(arg.els, arg.rectTop, previewTop)
    /\ pc' = "done"
    /\ UNCHANGED <<projectState, archive, render, burstAccepted, viewMode,
                   scrollSyncLock, scrollSyncRaf, rafQueue, frameQueue,
                   editorTop, previewTop, scrollEvt, framesSinceAccept,
                   lastEvent, echoAccepted, arg, res>>

SpecLineMap == InitLineMap /\ [][rebuildPreviewLineMap]_vars

MarkedElements == {i \in 1..Len(arg.els) : arg.els[i].finite}

(***************************************************************************)
(* C7: after rebuildPreviewLineMap the anchors' lines strictly increase,   *)
(* every marked line occurs exactly once, and the top kept for a line is   *)
(* the smallest top among the elements that carry the line.                *)
(***************************************************************************)
C7_LineMapMonotone ==
    pc = "done" =>
        /\ \A i \in 1..(Len(previewLineMap) - 1) :
              previewLineMap[i].line < previewLineMap[i + 1].line
        /\ {previewLineMap[i].line : i \in 1..Len(previewLineMap)}
              = {arg.els[i].attr : i \in MarkedElements}
        /\ \A i \in 1..Len(previewLineMap) :
              /\ \E j \in MarkedElements :
                    /\ arg.els[j].attr = previewLineMap[i].line
                    /\ arg.els[j].y = previewLineMap[i].top
              /\ \A j \in MarkedElements :
                    arg.els[j].attr = previewLineMap[i].line
                       => previewLineMap[i].top <= arg.els[j].y

C7_Witness ==
    /\ pc = "done"
    /\ Len(previewLineMap) = 2
    /\ Len(arg.els) = 3
    /\ arg.els[1].attr = 2
    /\ arg.els[2].attr = 1 /\ arg.els[2].y = 8
    /\ arg.els[3].attr = 1 /\ arg.els[3].y = 0
    /\ previewLineMap[1] = [line |-> 1, top |-> 0]


(***************************************************************************)
(* Strings                                                                 *)
(***************************************************************************)
\* the characters \s matches, and the ones . does not match
IsSpace(c) == c \in {" ", "\t", "\n", "\r"}
IsLineTerminator(c) == c \in {"\n", "\r"}

\* String.prototype.trim
RECURSIVE TrimStart(_)
TrimStart(str) ==
    IF str # <<>> /\ IsSpace(Head(str)) THEN TrimStart(Tail(str)) ELSE str
RECURSIVE TrimEnd(_)
TrimEnd(str) ==
    IF str # <<>> /\ IsSpace(str[Len(str)])
    THEN TrimEnd(SubSeq(str, 1, Len(str) - 1)) ELSE str
Trim(str) == TrimEnd(TrimStart(str))

\* content.split('\n')
RECURSIVE SplitLines(_, _)
SplitLines(content, cur) ==
    IF content = <<>> THEN <<cur>>
    ELSE IF Head(content) = "\n" THEN <<cur>> \o SplitLines(Tail(content), <<>>)
    ELSE SplitLines(Tail(content), Append(cur, Head(content)))

\* the length of the longest prefix of str[from..] whose characters are in S
RECURSIVE RunLength(_, _, _)
RunLength(str, from, S) ==
    IF from <= Len(str) /\ str[from] \in S
    THEN 1 + RunLength(str, from + 1, S) ELSE 0

(***************************************************************************)
(* updateToc (main.ts 4080-4098): heading detection                        *)
(***************************************************************************)
\* a normalisation that leaves the carriage return in place
StripTrailingCR_Keep(line) == line

\* line.replace(/\r$/, '')
StripTrailingCR(line) ==
    IF line # <<>> /\ line[Len(line)] = "\r"
    THEN SubSeq(line, 1, Len(line) - 1) ELSE line

\* normalizedLine.match(/^(#{1,3})\s+(.+)$/): <<>> when there is no match,
\* else <<[level, text]>> with level = match[1].length and text = match[2].
\* \s+ is greedy and gives characters back only when (.+)$ could not match.
HeadingMatch(line) ==
    LET hashes == RunLength(line, 1, {"#"})
        spaces == RunLength(line, hashes + 1, {" ", "\t", "\n", "\r"})
        \* where (.+) can start: after at least one \s, inside or right
        \* after the run of spaces, with only . characters up to the end
        starts == {p \in (hashes + 2)..(hashes + spaces + 1) :
                     /\ p <= Len(line)
                     /\ \A k \in p..Len(line) : ~IsLineTerminator(line[k])}
    IN  IF hashes \in 1..3 /\ spaces >= 1 /\ starts # {}
        THEN LET p == CHOOSE q \in starts : \A r \in starts : r <= q
             IN  <<[level |-> hashes, text |-> SubSeq(line, p, Len(line))]>>
        ELSE <<>>

\* the forEach at main.ts 4085-4098 over lines[index..]
RECURSIVE TocLoop(_, _)
TocLoop(lines, index) ==
    IF index > Len(lines) THEN <<>>
    ELSE LET m == HeadingMatch(StripTrailingCR(lines[index]))
         IN  (IF m = <<>> THEN <<>>
              ELSE <<[level |-> m[1].level, text |-> Trim(m[1].text),
                      line |-> index]>>)
             \o TocLoop(lines, index + 1)

\* the headings updateToc collects for the editor's content
TocHeadings(content) == TocLoop(SplitLines(content, <<>>), 1)

\* the same document with CRLF line endings
RECURSIVE ToCRLF(_)
ToCRLF(doc) ==
    IF doc = <<>> THEN <<>>
    ELSE IF Head(doc) = "\n" THEN <<"\r", "\n">> \o ToCRLF(Tail(doc))
    ELSE <<Head(doc)>> \o ToCRLF(Tail(doc))

\* "## Section\nBody\n"
SectionDoc ==
    <<"#", "#", " ", "S", "e", "c", "t", "i", "o", "n", "\n",
      "B", "o", "d", "y", "\n">>

InitToc ==
    /\ IdleScroll
    /\ previewTop = 0
    /\ previewLineMap = <<>>
    /\ pc = "input"
    /\ \E crlf \in BOOLEAN :
         \/ arg = [lf |-> SectionDoc, crlf |-> crlf]
         \/ \E n \in 0..MaxDocLen : \E doc \in [1..n -> {"#", " ", "a", "\n"}] :
               arg = [lf |-> doc, crlf |-> crlf]
    /\ res = "none"

\* updateToc on the drawn document, saved with LF or with CRLF line endings
updateToc ==
    /\ pc = "input"
    /\ res' = TocHeadings(IF arg.crlf THEN ToCRLF(arg.lf) ELSE arg.lf)
    /\ pc' = "done"
    /\ UNCHANGED <<projectState, archive, render, burstAccepted, viewMode,
                   scrollSyncLock, scrollSyncRaf, rafQueue, frameQueue,
                   editorTop, previewTop, scrollEvt, previewLineMap,
                   framesSinceAccept, lastEvent, echoAccepted, arg>>

SpecToc == InitToc /\ [][updateToc]_vars

(***************************************************************************)
(* C10: heading detection on a document with CRLF line endings yields the  *)
(* same (level, text, line) list as on the document with LF line endings,  *)
(* no detected text ends in a carriage return, and "## Section\r\nBody\r\n"*)
(* yields one level-2 heading at line 1.                                   *)
(***************************************************************************)
C10_CrlfSameHeadings ==
    (pc = "done" /\ arg.crlf) =>
        /\ res = TocHeadings(arg.lf)
        /\ \A i \in 1..Len(res) :
              res[i].text = <<>> \/ res[i].text[Len(res[i].text)] # "\r"
        /\ arg.lf = SectionDoc =>
              res = <<[level |-> 2,
                       text |-> <<"S", "e", "c", "t", "i", "o", "n">>,
                       line |-> 1]>>

C10_Witness ==
    /\ pc = "done"
    /\ arg.crlf
    /\ arg.lf = SectionDoc
    /\ Len(res) = 1
    /\ res[1].level = 2
    /\ res[1].line = 1


(***************************************************************************)
(* More string operations                                                  *)
(***************************************************************************)
\* str.startsWith(lit, i), positions from 1
StartsWithAt(str, i, lit) ==
    /\ i >= 1
    /\ i + Len(lit) - 1 <= Len(str)
    /\ SubSeq(str, i, i + Len(lit) - 1) = lit

\* str.indexOf(lit, from), positions from 1; 0 when lit does not occur
RECURSIVE IndexOf(_, _, _)
IndexOf(str, lit, from) ==
    IF from + Len(lit) - 1 > Len(str) THEN 0
    ELSE IF StartsWithAt(str, from, lit) THEN from
    ELSE IndexOf(str, lit, from + 1)

SetMin(S) == CHOOSE p \in S : \A r \in S : p <= r
SetMax(S) == CHOOSE p \in S : \A r \in S : r <= p
\* where String.prototype.replace with a g pattern finds its next match:
\* the first of the positions at which the pattern matches, 0 when none
FirstIn(hits) == IF hits = {} THEN 0 ELSE SetMin(hits)

DigitChars == {"0", "1", "2", "3", "4", "5", "6", "7", "8", "9"}
DigitOf(n) == <<"0", "1", "2", "3", "4", "5", "6", "7", "8", "9">>[n + 1]
\* `${index}`: a natural number in decimal
RECURSIVE ToDigits(_)
ToDigits(n) ==
    IF n < 10 THEN <<DigitOf(n)>>
    ELSE Append(ToDigits(n \div 10), DigitOf(n % 10))
\* parseInt(str, 10) of a string of digits
RECURSIVE ParseInt(_)
ParseInt(str) ==
    IF str = <<>> THEN 0
    ELSE 10 * ParseInt(SubSeq(str, 1, Len(str) - 1))
         + (CHOOSE n \in 0..9 : DigitOf(n) = str[Len(str)])

(***************************************************************************)
(* processMath (main.ts 5297-5348)                                         *)
(*                                                                         *)
(* A rendered expression is kept as [display, tex, raw]: what katex is     *)
(* asked to render (tex is "undefined" when the callback's tex is          *)
(* undefined) and the source text the expression was extracted from.       *)
(***************************************************************************)
MATH_BLOCK == <<"<", "!", "-", "-", "M", "A", "T", "H", "_", "B", "L", "O", "C", "K", "_">>
MATH_INLINE == <<"<", "!", "-", "-", "M", "A", "T", "H", "_", "I", "N", "L", "I", "N", "E", "_">>
CommentEnd == <<"-", "-", ">">>
Undefined == <<"u", "n", "d", "e", "f", "i", "n", "e", "d">>

\* tex1 || tex2 followed by tex.trim(): an empty tex1 is falsy
TexOf(tex1, tex2, has2) ==
    IF tex1 # <<>> THEN Trim(tex1)
    ELSE IF has2 /\ tex2 # <<>> THEN Trim(tex2)
    ELSE Undefined

\* the match of /\$\$([\s\S]*?)\$\$|\\\[([\s\S]*?)\\\]/ that starts at i:
\* [end, tex1, tex2, has2], or end = 0 when none starts there
BlockMathAt(str, i) ==
    LET close1 == IF StartsWithAt(str, i, <<"$", "$">>)
                  THEN IndexOf(str, <<"$", "$">>, i + 2) ELSE 0
        close2 == IF StartsWithAt(str, i, <<"\\", "[">>)
                  THEN IndexOf(str, <<"\\", "]">>, i + 2) ELSE 0
    IN  IF close1 > 0
        THEN [end |-> close1 + 1, tex1 |-> SubSeq(str, i + 2, close1 - 1),
              tex2 |-> <<>>, has2 |-> FALSE]
        ELSE IF close2 > 0
        THEN [end |-> close2 + 1, tex1 |-> <<>>,
              tex2 |-> SubSeq(str, i + 2, close2 - 1), has2 |-> TRUE]
        ELSE [end |-> 0, tex1 |-> <<>>, tex2 |-> <<>>, has2 |-> FALSE]

\* content.replace of the block pattern, from position i on
RECURSIVE ReplaceBlockMath(_, _, _, _)
ReplaceBlockMath(str, i, out, mathBlocks) ==
    LET j == FirstIn({p \in i..Len(str) : BlockMathAt(str, p).end > 0})
        m == BlockMathAt(str, j)
    IN  IF j = 0
        THEN [content |-> out \o SubSeq(str, i, Len(str)),
              mathBlocks |-> mathBlocks]
        ELSE ReplaceBlockMath(str, m.end + 1,
                 out \o SubSeq(str, i, j - 1)
                     \o MATH_BLOCK \o ToDigits(Len(mathBlocks)) \o CommentEnd,
                 Append(mathBlocks,
                        [display |-> TRUE,
                         tex |-> TexOf(m.tex1, m.tex2, m.has2),
                         raw |-> SubSeq(str, j, m.end)]))

\* the first position >= from of a character in S, 0 when there is none
RECURSIVE FirstOf(_, _, _)
FirstOf(str, from, S) ==
    IF from > Len(str) THEN 0
    ELSE IF str[from] \in S THEN from
    ELSE FirstOf(str, from + 1, S)

\* the match of /\$([^\$\n]+?)\$|\\\(([^)]+?)\\\)/ that starts at i
InlineMathAt(str, i) ==
    LET stop1 == IF StartsWithAt(str, i, <<"$">>)
                 THEN FirstOf(str, i + 1, {"$", "\n"}) ELSE 0
        ok1 == stop1 >= i + 2 /\ str[stop1] = "$"
        \* [^)]+? takes at least one character, none of them ")"
        paren == IF StartsWithAt(str, i, <<"\\", "(">>)
                 THEN FirstOf(str, i + 2, {")"}) ELSE 0
        close2 == IF StartsWithAt(str, i, <<"\\", "(">>)
                  THEN IndexOf(str, <<"\\", ")">>, i + 3) ELSE 0
        ok2 == close2 > 0 /\ paren = close2 + 1
    IN  IF ok1
        THEN [end |-> stop1, tex1 |-> SubSeq(str, i + 1, stop1 - 1),
              tex2 |-> <<>>, has2 |-> FALSE]
        ELSE IF ok2
        THEN [end |-> close2 + 1, tex1 |-> <<>>,
              tex2 |-> SubSeq(str, i + 2, close2 - 1), has2 |-> TRUE]
        ELSE [end |-> 0, tex1 |-> <<>>, tex2 |-> <<>>, has2 |-> FALSE]

\* content.replace of the inline pattern, from position i on
RECURSIVE ReplaceInlineMath(_, _, _, _)
ReplaceInlineMath(str, i, out, mathBlocks) ==
    LET j == FirstIn({p \in i..Len(str) : InlineMathAt(str, p).end > 0})
        m == InlineMathAt(str, j)
    IN  IF j = 0
        THEN [content |-> out \o SubSeq(str, i, Len(str)),
              mathBlocks |-> mathBlocks]
        ELSE IF m.tex1 # <<>> /\ m.tex1[1] \in DigitChars
        THEN \* looks like currency: the whole match stays as it is
             ReplaceInlineMath(str, m.end + 1,
                               out \o SubSeq(str, i, m.end), mathBlocks)
        ELSE ReplaceInlineMath(str, m.end + 1,
                 out \o SubSeq(str, i, j - 1)
                     \o MATH_INLINE \o ToDigits(Len(mathBlocks)) \o CommentEnd,
                 Append(mathBlocks,
                        [display |-> FALSE,
                         tex |-> TexOf(m.tex1, m.tex2, m.has2),
                         raw |-> SubSeq(str, j, m.end)]))

\* processMath: the rewritten content and this._mathBlocks
processMath(content) ==
    LET blocks == ReplaceBlockMath(content, 1, <<>>, <<>>)
    IN  ReplaceInlineMath(blocks.content, 1, <<>>, blocks.mathBlocks)

\* "Price: $100 and $x$"
PriceDoc ==
    <<"P", "r", "i", "c", "e", ":", " ", "$", "1", "0", "0", " ", "a", "n",
      "d", " ", "$", "x", "$">>
MathExamples ==
    {PriceDoc,
     <<"\\", "(", "x", "\\", ")">>,
     <<"$", "$", "x", "$", "$", " ", "\\", "[", "1", "\\", "]">>,
     <<"a", " ", "$", "x", "$", "\n", "$", "$", "$", "$">>}

InitMath ==
    /\ IdleScroll
    /\ previewTop = 0
    /\ previewLineMap = <<>>
    /\ pc = "input"
    /\ \/ arg \in MathExamples
       \/ \E n \in 0..MaxMathLen : \E doc \in [1..n -> {"$", "1", "x", " "}] : arg = doc
    /\ res = "none"

\* updatePreview's call of processMath (main.ts 4938) on the drawn content
CallProcessMath ==
    /\ pc = "input"
    /\ res' = processMath(arg)
    /\ pc' = "done"
    /\ UNCHANGED <<projectState, archive, render, burstAccepted, viewMode,
                   scrollSyncLock, scrollSyncRaf, rafQueue, frameQueue,
                   editorTop, previewTop, scrollEvt, previewLineMap,
                   framesSinceAccept, lastEvent, echoAccepted, arg>>

SpecMath == InitMath /\ [][CallProcessMath]_vars

(***************************************************************************)
(* C4: a "$" immediately followed by a digit never opens a math            *)
(* expression, and for "Price: $100 and $x$" exactly one expression, x, is *)
(* extracted while "$100" stays literal.                                   *)
(***************************************************************************)
C4_CurrencyGuard ==
    pc = "done" =>
        /\ \A i \in 1..Len(res.mathBlocks) :
              ~(res.mathBlocks[i].raw[1] = "$"
                  /\ res.mathBlocks[i].raw[2] \in DigitChars)
        /\ arg = PriceDoc =>
              /\ res.mathBlocks = <<[display |-> FALSE, tex |-> <<"x">>,
                                     raw |-> <<"$", "x", "$">>]>>
              /\ res.content = SubSeq(PriceDoc, 1, 16) \o MATH_INLINE
                                 \o <<"0">> \o CommentEnd


(***************************************************************************)
(* convertToFoldable (main.ts 5383-5460)                                   *)
(*                                                                         *)
(* Rendered HTML is a sequence of characters and of tags; a tag is one     *)
(* element.  "<h2>" stands for the opening tag with its attributes.        *)
(***************************************************************************)
OpenTag(level) == <<"<h1>", "<h2>", "<h3>">>[level]
CloseTag(level) == <<"</h1>", "</h2>", "</h3>">>[level]
\* parseInt(match[1][1])
LevelOfTag(tag) == CHOOSE level \in 1..3 : OpenTag(level) = tag

DetailsOpen == "<details open><summary>"
DetailsClose == "</details>"

\* the while loop at main.ts 5400-5410: the matches of
\* /<(h[1-3])([^>]*)>([\s\S]*?)<\/\1>/g from position i on, each with
\* level, start and end (end is the position after the match)
RECURSIVE ScanHeadings(_, _)
ScanHeadings(html, i) ==
    LET j == FirstIn({p \in i..Len(html) :
                        /\ html[p] \in {"<h1>", "<h2>", "<h3>"}
                        /\ IndexOf(html, <<CloseTag(LevelOfTag(html[p]))>>,
                                   p + 1) > 0})
        close == IndexOf(html, <<CloseTag(LevelOfTag(html[j]))>>, j + 1)
    IN  IF j = 0 THEN <<>>
        ELSE <<[level |-> LevelOfTag(html[j]), start |-> j,
                end |-> close + 1]>> \o ScanHeadings(html, close + 1)

\* the loop at main.ts 5426-5431: where the section of headings[i] ends
RECURSIVE SectionEnd(_, _, _, _)
SectionEnd(html, headings, i, j) ==
    IF j > Len(headings) THEN Len(html) + 1
    ELSE IF headings[j].level <= headings[i].level THEN headings[j].start
    ELSE SectionEnd(html, headings, i, j + 1)

\* a loop that does not skip the headings it has consumed
SkipNested_None(headings, i, sectionEnd) == i

\* the loop at main.ts 5451-5453: the last heading inside the section
RECURSIVE SkipNested(_, _, _)
SkipNested(headings, i, sectionEnd) ==
    IF i + 1 <= Len(headings) /\ headings[i + 1].start < sectionEnd
    THEN SkipNested(headings, i + 1, sectionEnd) ELSE i

RECURSIVE convertToFoldable(_)
RECURSIVE FoldLoop(_, _, _, _, _)
\* a loop that leaves out the content in front of a heading
RECURSIVE FoldLoop_NoLead(_, _, _, _, _)
FoldLoop_NoLead(html, headings, i, result, lastEnd) ==
    IF i > Len(headings) THEN result \o SubSeq(html, lastEnd, Len(html))
    ELSE LET heading == headings[i]
             sectionEnd == SectionEnd(html, headings, i, i + 1)
             content == Trim(SubSeq(html, heading.end, sectionEnd - 1))
             processedContent ==
                 IF content # <<>> THEN convertToFoldable(content) ELSE <<>>
         IN  FoldLoop_NoLead(html, headings,
                      SkipNested(headings, i, sectionEnd) + 1,
                      result \o <<DetailsOpen>>
                        \o SubSeq(html, heading.start, heading.end - 1)
                        \o <<"</summary>">>
                        \o (IF processedContent # <<>>
                            THEN <<"<div class=\"fold-content\">">>
                                   \o processedContent \o <<"</div>">>
                            ELSE <<>>)
                        \o <<DetailsClose>>,
                      sectionEnd)

\* the for loop at main.ts 5418-5454 from heading i on, and lines 5456-5459
FoldLoop(html, headings, i, result, lastEnd) ==
    IF i > Len(headings) THEN result \o SubSeq(html, lastEnd, Len(html))
    ELSE LET heading == headings[i]
             sectionEnd == SectionEnd(html, headings, i, i + 1)
             content == Trim(SubSeq(html, heading.end, sectionEnd - 1))
             processedContent ==
                 IF content # <<>> THEN convertToFoldable(content) ELSE <<>>
         IN  FoldLoop(html, headings,
                      SkipNested(headings, i, sectionEnd) + 1,
                      result \o SubSeq(html, lastEnd, heading.start - 1)
                        \o <<DetailsOpen>>
                        \o SubSeq(html, heading.start, heading.end - 1)
                        \o <<"</summary>">>
                        \o (IF processedContent # <<>>
                            THEN <<"<div class=\"fold-content\">">>
                                   \o processedContent \o <<"</div>">>
                            ELSE <<>>)
                        \o <<DetailsClose>>,
                      sectionEnd)

convertToFoldable(html) ==
    LET headings == ScanHeadings(html, 1)
    IN  IF headings = <<>> THEN html
        ELSE FoldLoop(html, headings, 1, <<>>, 1)

\* The HTML marked renders for a sequence of blocks: block 0 is a
\* paragraph, block 1..3 a heading of that level; the k-th heading of the
\* document has the decimal number k as its text.
RECURSIVE RenderBlocks(_, _)
RenderBlocks(blocks, k) ==
    IF blocks = <<>> THEN <<>>
    ELSE IF Head(blocks) = 0
    THEN <<"<p>", "t", "</p>", "\n">> \o RenderBlocks(Tail(blocks), k)
    ELSE <<OpenTag(Head(blocks))>> \o ToDigits(k)
           \o <<CloseTag(Head(blocks)), "\n">>
           \o RenderBlocks(Tail(blocks), k + 1)

\* the levels of the headings of a block sequence, in document order
RECURSIVE HeadingLevels(_)
HeadingLevels(blocks) ==
    IF blocks = <<>> THEN <<>>
    ELSE IF Head(blocks) = 0 THEN HeadingLevels(Tail(blocks))
    ELSE <<Head(blocks)>> \o HeadingLevels(Tail(blocks))

InitFold ==
    /\ IdleScroll
    /\ previewTop = 0
    /\ previewLineMap = <<>>
    /\ pc = "input"
    /\ \E n \in 0..MaxBlocks : \E blocks \in [1..n -> 0..3] : arg = blocks
    /\ res = "none"

\* updatePreview's call of convertToFoldable (main.ts 5157)
CallConvertToFoldable ==
    /\ pc = "input"
    /\ res' = convertToFoldable(RenderBlocks(arg, 1))
    /\ pc' = "done"
    /\ UNCHANGED <<projectState, archive, render, burstAccepted, viewMode,
                   scrollSyncLock, scrollSyncRaf, rafQueue, frameQueue,
                   editorTop, previewTop, scrollEvt, previewLineMap,
                   framesSinceAccept, lastEvent, echoAccepted, arg>>

SpecFold == InitFold /\ [][CallConvertToFoldable]_vars

\* Reading the nesting off the output: for every section, in the order the
\* sections open, <<number of its heading, numbers of the headings of the
\* sections that enclose it>>
RECURSIVE Sections(_, _, _)
Sections(out, i, stack) ==
    IF i > Len(out) THEN <<>>
    ELSE IF out[i] = DetailsOpen
    THEN LET close == FirstOf(out, i + 2, {"</h1>", "</h2>", "</h3>"})
             h == ParseInt(SubSeq(out, i + 2, close - 1))
         IN  <<[heading |-> h, inside |-> stack]>>
               \o Sections(out, close + 1, stack \cup {h})
    ELSE IF out[i] = DetailsClose
    THEN Sections(out, i + 1,
                  stack \ {CHOOSE h \in stack : \A g \in stack : g <= h})
    ELSE Sections(out, i + 1, stack)

(***************************************************************************)
(* C5: convertToFoldable builds exactly one section per heading; heading j *)
(* lies inside the section of an earlier heading i iff every heading k     *)
(* with i < k <= j has a level greater than level(i); headings #A, ##B, #C *)
(* give exactly 2 top-level sections.                                      *)
(***************************************************************************)
C5_FoldNesting ==
    pc = "done" =>
        LET levels == HeadingLevels(arg)
            secs == Sections(res, 1, {})
        IN  /\ Len(secs) = Len(levels)
            /\ \A j \in 1..Len(secs) :
                  /\ secs[j].heading = j
                  /\ \A i \in 1..Len(levels) :
                        i \in secs[j].inside
                           <=> (i < j /\ \A k \in (i + 1)..j : levels[k] > levels[i])
            /\ levels = <<1, 2, 1>> =>
                  Cardinality({j \in 1..Len(secs) : secs[j].inside = {}}) = 2

C5_Witness ==
    /\ pc = "done"
    /\ arg = <<1, 0, 2, 0, 1>>
    /\ LET secs == Sections(res, 1, {})
       IN  /\ Len(secs) = 3
           /\ secs[2].inside = {1}
           /\ secs[3].inside = {}


(***************************************************************************)
(* updatePreview (main.ts 4914-5176): extraction of notes, alerts,         *)
(* callouts and footnotes into side tables, rendering, and restoration of  *)
(* the placeholders.                                                       *)
(*                                                                         *)
(* Content is a sequence of characters.  Rendered HTML is a sequence whose *)
(* elements are characters and markup atoms (a whole tag as one string).   *)
(* The documents rendered here contain no front matter, image, mermaid,    *)
(* ruby, wikilink, %%comment%% or fold-marker syntax, so the passes for    *)
(* those (main.ts 4919-4934, 4941, 4993-5015, 5036, 5148-5154) leave the   *)
(* text as it is.                                                          *)
(***************************************************************************)
MaxSegments == 2

QIITA_NOTE == <<"<", "!", "-", "-", "Q", "I", "I", "T", "A", "_", "N", "O", "T", "E", "_">>
GH_ALERT == <<"<", "!", "-", "-", "G", "H", "_", "A", "L", "E", "R", "T", "_">>
OBSIDIAN_CALLOUT == <<"<", "!", "-", "-", "O", "B", "S", "I", "D", "I", "A", "N", "_", "C",
      "A", "L", "L", "O", "U", "T", "_">>
FNREF == <<"<", "!", "-", "-", "F", "N", "R", "E", "F", "_">>

WhiteSpace == {" ", "\t", "\n", "\r"}

\* ^ under the m flag
AtLineStart(str, i) == i = 1 \/ (i <= Len(str) + 1 /\ IsLineTerminator(str[i - 1]))
\* where a greedy .* or .+ that starts at from stops
LineEnd(str, from) ==
    LET p == FirstOf(str, from, {"\n", "\r"})
    IN  IF p = 0 THEN Len(str) + 1 ELSE p

\* \s*\r?\n at position q: the position after the match, 0 when there is
\* none; the greedy \s* gives back down to the last "\n" of its run
HeaderEnd(str, q) ==
    LET run == RunLength(str, q, WhiteSpace)
        nls == {p \in q..(q + run - 1) : str[p] = "\n"}
    IN  IF nls = {} THEN 0 ELSE SetMax(nls) + 1

(***************************************************************************)
(* Qiita notes (main.ts 4943-4953)                                         *)
(***************************************************************************)
NoteTypes == {<<"i", "n", "f", "o">>, <<"w", "a", "r", "n">>, <<"a", "l", "e", "r", "t">>}

\* ^:::\s*$ at position k: the position after the match, 0 when none
NoteCloseEnd(str, k) ==
    IF AtLineStart(str, k) /\ StartsWithAt(str, k, <<":", ":", ":">>)
    THEN LET q == k + 3
             run == RunLength(str, q, WhiteSpace)
             \* $ under the m flag
             ends == {e \in q..(q + run) :
                        e > Len(str) \/ IsLineTerminator(str[e])}
         IN  IF ends = {} THEN 0 ELSE SetMax(ends)
    ELSE 0

\* the match of /^:::note\s*(info|warn|alert)?\s*\r?\n([\s\S]*?)^:::\s*$/m
\* that starts at i; end is the position after the match, 0 when none
QiitaNoteAt(str, i) ==
    IF ~(AtLineStart(str, i) /\ StartsWithAt(str, i, <<":", ":", ":", "n", "o", "t", "e">>))
    THEN [end |-> 0]
    ELSE LET p0 == i + 7
             w1 == RunLength(str, p0, WhiteSpace)
             types == {t \in NoteTypes : StartsWithAt(str, p0 + w1, t)}
             type == CHOOSE t \in types : TRUE
             typed == IF types = {} THEN 0
                      ELSE HeaderEnd(str, p0 + w1 + Len(type))
             bodyStart == IF typed > 0 THEN typed ELSE HeaderEnd(str, p0)
             \* the lazy ([\s\S]*?) stops at the first closing fence
             close == IF bodyStart = 0 THEN 0
                      ELSE FirstIn({k \in bodyStart..Len(str) :
                                      NoteCloseEnd(str, k) > 0})
         IN  IF close = 0 THEN [end |-> 0]
             ELSE [end |-> NoteCloseEnd(str, close),
                   \* type || 'info'
                   type |-> IF typed > 0 THEN type ELSE <<"i", "n", "f", "o">>,
                   body |-> Trim(SubSeq(str, bodyStart, close - 1))]

RECURSIVE ReplaceQiitaNotes(_, _, _, _)
ReplaceQiitaNotes(st, i, out, qiitaNotes) ==
    LET str == st.content
        j == FirstIn({p \in i..Len(str) : QiitaNoteAt(str, p).end > 0})
        m == QiitaNoteAt(str, j)
    IN  IF j = 0
        THEN [content |-> out \o SubSeq(str, i, Len(str)),
              qiitaNotes |-> qiitaNotes] @@ st
        ELSE ReplaceQiitaNotes(st, m.end,
                 out \o SubSeq(str, i, j - 1)
                     \o QIITA_NOTE \o ToDigits(Len(qiitaNotes)) \o CommentEnd,
                 Append(qiitaNotes, [type |-> m.type, body |-> m.body]))

(***************************************************************************)
(* GitHub alerts (main.ts 4955-4970) and Obsidian callouts (4972-4987)     *)
(***************************************************************************)
\* ^>\s*\[! at position i: the position after the match, 0 when none
QuoteOpenAt(str, i) ==
    IF AtLineStart(str, i) /\ StartsWithAt(str, i, <<">">>)
    THEN LET q == i + 1 + RunLength(str, i + 1, WhiteSpace)
         IN  IF StartsWithAt(str, q, <<"[", "!">>) THEN q + 2 ELSE 0
    ELSE 0

\* ((?:>\s*.*(?:\r?\n|$))*) from position p: the position after it
RECURSIVE QuoteBodyEnd(_, _)
QuoteBodyEnd(str, p) ==
    IF StartsWithAt(str, p, <<">">>)
    THEN LET q == p + 1 + RunLength(str, p + 1, WhiteSpace)
             e == LineEnd(str, q)
         IN  IF StartsWithAt(str, e, <<"\n">>) THEN QuoteBodyEnd(str, e + 1)
             ELSE IF StartsWithAt(str, e, <<"\r", "\n">>)
             THEN QuoteBodyEnd(str, e + 2)
             ELSE e
    ELSE p

\* innerContent.split(/\r?\n/)
RECURSIVE SplitNewlines(_, _)
SplitNewlines(str, cur) ==
    IF str = <<>> THEN <<cur>>
    ELSE IF Head(str) = "\n"
    THEN <<cur>> \o SplitNewlines(Tail(str), <<>>)
    ELSE IF StartsWithAt(str, 1, <<"\r", "\n">>)
    THEN <<cur>> \o SplitNewlines(Tail(Tail(str)), <<>>)
    ELSE SplitNewlines(Tail(str), Append(cur, Head(str)))

\* .map(line => line.replace(/^>\s?/, '')).join('\n')
RECURSIVE UnquoteLines(_)
UnquoteLines(lines) ==
    IF lines = <<>> THEN <<>>
    ELSE LET line == Head(lines)
             n == IF ~StartsWithAt(line, 1, <<">">>) THEN 0
                  ELSE IF Len(line) >= 2 /\ line[2] \in WhiteSpace THEN 2
                  ELSE 1
         IN  SubSeq(line, n + 1, Len(line))
             \o (IF Len(lines) > 1
                 THEN <<"\n">> \o UnquoteLines(Tail(lines)) ELSE <<>>)

QuoteBody(innerContent) ==
    Trim(UnquoteLines(SplitNewlines(innerContent, <<>>)))

\* the match of the GitHub alert pattern (main.ts 4958) that starts at i
GhAlertAt(str, i) ==
    LET q == QuoteOpenAt(str, i)
        types == IF q = 0 THEN {}
                 ELSE {t \in {<<"N", "O", "T", "E">>, <<"T", "I", "P">>,
                              <<"I", "M", "P", "O", "R", "T", "A", "N", "T">>,
                              <<"W", "A", "R", "N", "I", "N", "G">>,
                              <<"C", "A", "U", "T", "I", "O", "N">>} :
                         StartsWithAt(str, q, Append(t, "]"))}
        type == CHOOSE t \in types : TRUE
        bodyStart == IF types = {} THEN 0
                     ELSE HeaderEnd(str, q + Len(type) + 1)
        bodyEnd == QuoteBodyEnd(str, bodyStart)
    IN  IF bodyStart = 0 THEN [end |-> 0]
        ELSE [end |-> bodyEnd, type |-> type,
              body |-> QuoteBody(SubSeq(str, bodyStart, bodyEnd - 1))]

RECURSIVE ReplaceGhAlerts(_, _, _, _)
ReplaceGhAlerts(st, i, out, ghAlerts) ==
    LET str == st.content
        j == FirstIn({p \in i..Len(str) : GhAlertAt(str, p).end > 0})
        m == GhAlertAt(str, j)
    IN  IF j = 0
        THEN [content |-> out \o SubSeq(str, i, Len(str)),
              ghAlerts |-> ghAlerts] @@ st
        ELSE ReplaceGhAlerts(st, m.end,
                 out \o SubSeq(str, i, j - 1)
                     \o GH_ALERT \o ToDigits(Len(ghAlerts)) \o CommentEnd,
                 Append(ghAlerts, [type |-> m.type, body |-> m.body]))

UpperCase ==
    <<"A", "B", "C", "D", "E", "F", "G", "H", "I", "J", "K", "L", "M", "N",
      "O", "P", "Q", "R", "S", "T", "U", "V", "W", "X", "Y", "Z">>
LowerCase ==
    <<"a", "b", "c", "d", "e", "f", "g", "h", "i", "j", "k", "l", "m", "n",
      "o", "p", "q", "r", "s", "t", "u", "v", "w", "x", "y", "z">>
ToLowerCase(str) ==
    [j \in 1..Len(str) |->
        IF \E k \in 1..26 : UpperCase[k] = str[j]
        THEN LowerCase[CHOOSE k \in 1..26 : UpperCase[k] = str[j]]
        ELSE str[j]]

\* the match of the callout pattern (main.ts 4975) that starts at i.  The
\* title group (?:\s+(.+))? is tried first, its \s+ greedy over line
\* breaks too; titles are the places where (.+) can start so that a line
\* break follows the line it runs to.
CalloutAt(str, i) ==
    LET q == QuoteOpenAt(str, i)
        \* \w+
        w == IF q = 0 THEN 0
             ELSE RunLength(str, q,
                      {UpperCase[k] : k \in 1..26}
                      \cup {LowerCase[k] : k \in 1..26}
                      \cup DigitChars \cup {"_"})
        ok == w >= 1 /\ StartsWithAt(str, q + w, <<"]">>)
        after == q + w + 1
        run == RunLength(str, after, WhiteSpace)
        titles == {p \in (after + 1)..(after + run) :
                     /\ p <= Len(str)
                     /\ ~IsLineTerminator(str[p])
                     /\ HeaderEnd(str, LineEnd(str, p)) > 0}
        tStart == SetMax(titles)
        bodyStart == IF ~ok THEN 0
                     ELSE IF titles # {}
                     THEN HeaderEnd(str, LineEnd(str, tStart))
                     ELSE HeaderEnd(str, after)
        bodyEnd == QuoteBodyEnd(str, bodyStart)
    IN  IF bodyStart = 0 THEN [end |-> 0]
        ELSE [end |-> bodyEnd,
              type |-> ToLowerCase(SubSeq(str, q, q + w - 1)),
              \* title || ''
              title |-> IF titles # {}
                        THEN SubSeq(str, tStart, LineEnd(str, tStart) - 1)
                        ELSE <<>>,
              body |-> QuoteBody(SubSeq(str, bodyStart, bodyEnd - 1))]

RECURSIVE ReplaceCallouts(_, _, _, _)
ReplaceCallouts(st, i, out, obsidianCallouts) ==
    LET str == st.content
        j == FirstIn({p \in i..Len(str) : CalloutAt(str, p).end > 0})
        m == CalloutAt(str, j)
    IN  IF j = 0
        THEN [content |-> out \o SubSeq(str, i, Len(str)),
              obsidianCallouts |-> obsidianCallouts] @@ st
        ELSE ReplaceCallouts(st, m.end,
                 out \o SubSeq(str, i, j - 1) \o OBSIDIAN_CALLOUT
                     \o ToDigits(Len(obsidianCallouts)) \o CommentEnd,
                 Append(obsidianCallouts,
                        [type |-> m.type, title |-> m.title,
                         body |-> m.body]))

(***************************************************************************)
(* Footnotes (main.ts 5020-5033).  The Map is kept as the sequence of its  *)
(* entries in insertion order.                                             *)
(***************************************************************************)
FootnoteHas(footnotes, id) ==
    \E k \in 1..Len(footnotes) : footnotes[k].id = id
\* footnotes.set(id, content)
FootnoteSet(footnotes, id, content) ==
    IF FootnoteHas(footnotes, id)
    THEN [k \in 1..Len(footnotes) |->
             IF footnotes[k].id = id THEN [id |-> id, content |-> content]
             ELSE footnotes[k]]
    ELSE Append(footnotes, [id |-> id, content |-> content])

\* the match of /^\[\^([^\]]+)\]:\s*(.+)$/m that starts at i
FootnoteDefAt(str, i) ==
    IF AtLineStart(str, i) /\ StartsWithAt(str, i, <<"[", "^">>)
    THEN LET c == FirstOf(str, i + 2, {"]"})
             q == c + 2
             run == RunLength(str, q, WhiteSpace)
             starts == {p \in q..(q + run) :
                          p <= Len(str) /\ ~IsLineTerminator(str[p])}
             p == SetMax(starts)
         IN  IF c >= i + 3 /\ StartsWithAt(str, c + 1, <<":">>) /\ starts # {}
             THEN [end |-> LineEnd(str, p),
                   id |-> SubSeq(str, i + 2, c - 1),
                   body |-> SubSeq(str, p, LineEnd(str, p) - 1)]
             ELSE [end |-> 0]
    ELSE [end |-> 0]

RECURSIVE ExtractFootnoteDefs(_, _, _, _)
ExtractFootnoteDefs(st, i, out, footnotes) ==
    LET str == st.content
        j == FirstIn({p \in i..Len(str) : FootnoteDefAt(str, p).end > 0})
        m == FootnoteDefAt(str, j)
    IN  IF j = 0
        THEN [content |-> out \o SubSeq(str, i, Len(str)),
              footnotes |-> footnotes] @@ st
        ELSE ExtractFootnoteDefs(st, m.end, out \o SubSeq(str, i, j - 1),
                 FootnoteSet(footnotes, m.id, Trim(m.body)))

\* the match of /\[\^([^\]]+)\]/ that starts at i: the position of its "]"
FootnoteRefAt(str, i) ==
    IF StartsWithAt(str, i, <<"[", "^">>)
    THEN LET c == FirstOf(str, i + 2, {"]"})
         IN  IF c >= i + 3 THEN c ELSE 0
    ELSE 0

RECURSIVE ReplaceFootnoteRefs(_, _, _)
ReplaceFootnoteRefs(st, i, out) ==
    LET str == st.content
        j == FirstIn({p \in i..Len(str) : FootnoteRefAt(str, p) > 0})
        c == FootnoteRefAt(str, j)
    IN  IF j = 0 THEN [content |-> out \o SubSeq(str, i, Len(str))] @@ st
        ELSE ReplaceFootnoteRefs(st, c + 1,
                 out \o SubSeq(str, i, j - 1)
                     \o FNREF \o SubSeq(str, j + 2, c - 1) \o CommentEnd)

(***************************************************************************)
(* The markdown parser, as far as this pipeline relies on it: every        *)
(* non-empty line is a block (a heading, raw HTML when it starts with "<", *)
(* else a paragraph), a run of empty lines is a space token, and HTML      *)
(* comments pass through unchanged.  A token is [type, raw, text, depth,   *)
(* line]; line = 0 stands for a token without __srcLine.                   *)
(***************************************************************************)
RECURSIVE MarkedLexer(_, _)
MarkedLexer(src, p) ==
    IF p > Len(src) THEN <<>>
    ELSE IF src[p] = "\n"
    THEN LET n == RunLength(src, p, {"\n"})
         IN  <<[type |-> "space", raw |-> SubSeq(src, p, p + n - 1),
                text |-> <<>>, depth |-> 0, line |-> 0]>>
             \o MarkedLexer(src, p + n)
    ELSE LET nl == FirstOf(src, p, {"\n"})
             last == IF nl = 0 THEN Len(src) ELSE nl
             text == SubSeq(src, p, IF nl = 0 THEN Len(src) ELSE nl - 1)
             h == HeadingMatch(text)
         IN  <<[type |-> IF h # <<>> THEN "heading"
                         ELSE IF text[1] = "<" THEN "html" ELSE "paragraph",
                raw |-> SubSeq(src, p, last),
                text |-> IF h # <<>> THEN Trim(h[1].text) ELSE text,
                depth |-> IF h # <<>> THEN h[1].level ELSE 0,
                line |-> 0]>>
             \o MarkedLexer(src, last + 1)

\* indexToLine (main.ts 4745-4754): the number of line starts <= idx
indexToLine(src, idx) ==
    Max(1, 1 + Cardinality({k \in 1..Min(idx, Len(src)) : src[k] = "\n"}))

\* annotateTopLevelTokenLines (main.ts 4739-4768); cursor counts from 0
RECURSIVE annotateTopLevelTokenLines(_, _, _)
annotateTopLevelTokenLines(tokens, src, cursor) ==
    IF tokens = <<>> THEN <<>>
    ELSE LET tok == Head(tokens)
             pos == IndexOf(src, tok.raw, cursor + 1) - 1
             start == IF pos >= 0 THEN pos ELSE cursor
         IN  IF tok.raw = <<>>
             THEN <<tok>> \o annotateTopLevelTokenLines(Tail(tokens), src, cursor)
             ELSE <<[tok EXCEPT !.line = indexToLine(src, start)]>>
                  \o annotateTopLevelTokenLines(Tail(tokens), src,
                                                start + Len(tok.raw))

MdBlockOpen == "<div class=\"md-block\" data-src-line=\""
\* wrap (main.ts 4772-4776)
WrapBlock(html, line) ==
    IF line = 0 THEN html
    ELSE <<MdBlockOpen>> \o ToDigits(line) \o <<"\">">> \o html
         \o <<"</div>">>

\* marked.parser(tokens, { renderer }) with the line-wrapped renderer
\* (main.ts 4770-4815); the data-src-line attribute of a heading is part
\* of its opening tag
RECURSIVE MarkedParser(_)
MarkedParser(tokens) ==
    IF tokens = <<>> THEN <<>>
    ELSE LET tok == Head(tokens)
         IN  (IF tok.type = "space" THEN <<>>
              ELSE IF tok.type = "heading"
              THEN <<OpenTag(tok.depth)>> \o tok.text
                   \o <<CloseTag(tok.depth), "\n">>
              ELSE IF tok.type = "html" THEN WrapBlock(tok.raw, tok.line)
              ELSE WrapBlock(<<"<p>">> \o tok.text \o <<"</p>", "\n">>,
                             tok.line))
             \o MarkedParser(Tail(tokens))

\* marked.parse(src): the second, unannotated pass
MarkedParse(src) == MarkedParser(MarkedLexer(src, 1))

(***************************************************************************)
(* Restoration (main.ts 5044-5145)                                         *)
(***************************************************************************)
NoteOpen(type) ==
    IF type = <<"w", "a", "r", "n">> THEN "<div class=\"note warn\">"
    ELSE IF type = <<"a", "l", "e", "r", "t">> THEN "<div class=\"note alert\">"
    ELSE "<div class=\"note info\">"
NoteHtml(note) ==
    <<NoteOpen(note.type), "<span class=\"note-icon\"></span>",
      "<div class=\"note-content\">">>
    \o MarkedParse(note.body) \o <<"</div>", "</div>">>

\* the class, icon and label of alertConfig are keyed by the type, which
\* stands for them in the title
AlertHtml(alert) ==
    <<"<div class=\"gh-alert\">", "<p class=\"gh-alert-title\">">> \o alert.type
    \o <<"</p>", "<div class=\"gh-alert-content\">">> \o MarkedParse(alert.body)
    \o <<"</div>", "</div>">>

\* callout.title || config.label; the class, icon and label of
\* obsidianCalloutConfig are keyed by the type, which stands for the label
CalloutHtml(callout) ==
    <<"<div class=\"obsidian-callout\">", "<p class=\"callout-title\">">>
    \o (IF callout.title # <<>> THEN callout.title ELSE callout.type)
    \o <<"</p>", "<div class=\"callout-content\">">>
    \o MarkedParse(callout.body)
    \o <<"</div>", "</div>">>

\* the match of /<!--PREFIX(\d+)-->/ that starts at i: the number of
\* digits of the index, 0 when there is no match
IndexedAt(html, i, prefix) ==
    LET from == i + Len(prefix)
        d == RunLength(html, from, DigitChars)
    IN  IF /\ StartsWithAt(html, i, prefix)
           /\ d >= 1
           /\ StartsWithAt(html, from + d, CommentEnd)
        THEN d ELSE 0

\* html.replace(/<!--PREFIX(\d+)-->/g, ...) with table[parseInt(index)],
\* or '' when the table has no such entry; frags are the rendered entries
RECURSIVE RestoreIndexed(_, _, _, _, _)
RestoreIndexed(html, i, out, prefix, frags) ==
    LET j == FirstIn({p \in i..Len(html) : IndexedAt(html, p, prefix) > 0})
        from == j + Len(prefix)
        d == IndexedAt(html, j, prefix)
        index == ParseInt(SubSeq(html, from, from + d - 1))
    IN  IF j = 0 THEN out \o SubSeq(html, i, Len(html))
        ELSE RestoreIndexed(html, from + d + 3,
                 out \o SubSeq(html, i, j - 1)
                     \o (IF index < Len(frags) THEN frags[index + 1]
                         ELSE <<>>),
                 prefix, frags)

\* [^-]+ from position from: the length of the run without "-"
RECURSIVE NonDashRun(_, _)
NonDashRun(html, from) ==
    IF from <= Len(html) /\ html[from] # "-"
    THEN 1 + NonDashRun(html, from + 1) ELSE 0

FootnoteRefHtml(footnotes, id) ==
    IF FootnoteHas(footnotes, id)
    THEN <<"<sup class=\"footnote-ref\">", "<a href=\"#fn-">> \o id \o <<"\" id=\"fnref-">> \o id
         \o <<"\">", "[">> \o id \o <<"]", "</a>", "</sup>">>
    ELSE <<"<sup class=\"footnote-ref\">", "[">> \o id \o <<"]", "</sup>">>

\* the match of /<!--FNREF_([^-]+)-->/ that starts at i: the length of
\* the identifier, 0 when there is no match
FootnoteRefIdAt(html, i) ==
    LET from == i + Len(FNREF)
        n == NonDashRun(html, from)
    IN  IF /\ StartsWithAt(html, i, FNREF)
           /\ n >= 1
           /\ StartsWithAt(html, from + n, CommentEnd)
        THEN n ELSE 0

\* html.replace(/<!--FNREF_([^-]+)-->/g, ...) (main.ts 5119-5124)
RECURSIVE RestoreFootnoteRefs(_, _, _, _)
RestoreFootnoteRefs(html, i, out, footnotes) ==
    LET j == FirstIn({p \in i..Len(html) : FootnoteRefIdAt(html, p) > 0})
        from == j + Len(FNREF)
        n == FootnoteRefIdAt(html, j)
    IN  IF j = 0 THEN out \o SubSeq(html, i, Len(html))
        ELSE RestoreFootnoteRefs(html, from + n + 3,
                 out \o SubSeq(html, i, j - 1)
                     \o FootnoteRefHtml(footnotes,
                                        SubSeq(html, from, from + n - 1)),
                 footnotes)

\* the <li> items of the footnotes section (main.ts 5129-5133), with
\* parsedContent.replace(/<\/?p>/g, '')
RECURSIVE FootnoteItems(_)
FootnoteItems(footnotes) ==
    IF footnotes = <<>> THEN <<>>
    ELSE LET fn == Head(footnotes)
         IN  <<"<li id=\"fn-">> \o fn.id \o <<"\" class=\"footnote-item\">", "<p>">>
             \o SelectSeq(MarkedParse(fn.content),
                          LAMBDA e : e \notin {"<p>", "</p>"})
             \o <<" ", "<a href=\"#fnref-">> \o fn.id
             \o <<"\" class=\"footnote-backref\">", "</a>", "</p>", "</li>">>
             \o FootnoteItems(Tail(footnotes))

\* the footnotes section appended when footnotes.size > 0
FootnotesHtml(footnotes) ==
    IF footnotes = <<>> THEN <<>>
    ELSE <<"<hr class=\"footnotes-sep\">", "<section class=\"footnotes\">", "<ol class=\"footnotes-list\">">>
         \o FootnoteItems(footnotes) \o <<"</ol>", "</section>">>

\* the string processMath pushes for an expression (main.ts 5307-5313,
\* 5331-5338); tex.trim() throws when tex is undefined
MathHtml(m) ==
    IF m.tex = Undefined
    THEN IF m.display
         THEN <<"<div class=\"math-block math-error\">">> \o m.tex \o <<"</div>">>
         ELSE <<"<span class=\"math-inline math-error\">">> \o m.tex \o <<"</span>">>
    ELSE IF m.display
    THEN <<"<div class=\"math-block\">", "<span class=\"katex\">">> \o m.tex
         \o <<"</span>", "</div>">>
    ELSE <<"<span class=\"math-inline\">", "<span class=\"katex\">">> \o m.tex
         \o <<"</span>", "</span>">>

\* The preprocessing passes of updatePreview (main.ts 4936-5033) in their
\* order: the rewritten content together with the side tables mathBlocks,
\* qiitaNotes, ghAlerts, obsidianCallouts and footnotes
Preprocess(content) ==
    ReplaceFootnoteRefs(
        ExtractFootnoteDefs(
            ReplaceCallouts(
                ReplaceGhAlerts(
                    ReplaceQiitaNotes(processMath(content), 1, <<>>, <<>>),
                    1, <<>>, <<>>),
                1, <<>>, <<>>),
            1, <<>>, <<>>),
        1, <<>>)

\* marked.lexer, annotateTopLevelTokenLines and marked.parser with the
\* line-wrapped renderer (main.ts 5038-5042) on the preprocessed content
RenderMarkdown(st) ==
    [html |-> MarkedParser(annotateTopLevelTokenLines(
                  MarkedLexer(st.content, 1), st.content, 0))] @@ st

\* The restoring passes (main.ts 5044-5145) in their order: notes, alerts,
\* callouts, footnote references, the footnotes section, block and inline
\* math
RestorePlaceholders(st) ==
    LET mathBlocks == [k \in 1..Len(st.mathBlocks) |->
                          MathHtml(st.mathBlocks[k])]
    IN  RestoreIndexed(
            RestoreIndexed(
                RestoreFootnoteRefs(
                    RestoreIndexed(
                        RestoreIndexed(
                            RestoreIndexed(st.html, 1, <<>>, QIITA_NOTE,
                                [k \in 1..Len(st.qiitaNotes) |->
                                    NoteHtml(st.qiitaNotes[k])]),
                            1, <<>>, GH_ALERT,
                            [k \in 1..Len(st.ghAlerts) |->
                                AlertHtml(st.ghAlerts[k])]),
                        1, <<>>, OBSIDIAN_CALLOUT,
                        [k \in 1..Len(st.obsidianCallouts) |->
                            CalloutHtml(st.obsidianCallouts[k])]),
                    1, <<>>, st.footnotes)
                \o FootnotesHtml(st.footnotes),
                1, <<>>, MATH_BLOCK, mathBlocks),
            1, <<>>, MATH_INLINE, mathBlocks)

\* the HTML updatePreview assigns to preview.innerHTML for content
PreviewHtml(content) ==
    convertToFoldable(RestorePlaceholders(RenderMarkdown(Preprocess(content))))

\* querySelectorAll('[data-src-line]') on the rendered HTML, laid out one
\* block under the other, LineHeight apart
RECURSIVE PreviewElements(_, _, _)
PreviewElements(html, i, count) ==
    LET j == FirstIn({p \in i..Len(html) : html[p] = MdBlockOpen})
        d == RunLength(html, j + 1, DigitChars)
    IN  IF j = 0 THEN <<>>
        ELSE <<[attr |-> ParseInt(SubSeq(html, j + 1, j + d)),
                finite |-> d >= 1, y |-> count * LineHeight]>>
             \o PreviewElements(html, j + 1, count + 1)

\* Well-formed documents: sequences of these segments, each followed by an
\* empty line.  n, m and k are the math expressions, the notes / alerts /
\* callouts and the footnote references the segment contains; def marks a
\* footnote definition, which a document holds at most once.
Segments ==
    <<
      [text |-> <<"a", "\n", "\n">>,
       n |-> 0, m |-> 0, k |-> 0, def |-> FALSE],
      [text |-> <<"$", "x", "$", "\n", "\n">>,
       n |-> 1, m |-> 0, k |-> 0, def |-> FALSE],
      [text |-> <<"$", "$", "x", "$", "$", "\n", "\n">>,
       n |-> 1, m |-> 0, k |-> 0, def |-> FALSE],
      [text |-> <<":", ":", ":", "n", "o", "t", "e", " ", "i", "n", "f", "o", "\n", "a", "\n", ":", ":", ":", "\n", "\n">>,
       n |-> 0, m |-> 1, k |-> 0, def |-> FALSE],
      [text |-> <<":", ":", ":", "n", "o", "t", "e", " ", "w", "a", "r", "n", "\n", "$", "x", "$", "\n", ":", ":", ":", "\n", "\n">>,
       n |-> 1, m |-> 1, k |-> 0, def |-> FALSE],
      [text |-> <<">", " ", "[", "!", "N", "O", "T", "E", "]", "\n", ">", " ", "a", "\n", "\n">>,
       n |-> 0, m |-> 1, k |-> 0, def |-> FALSE],
      [text |-> <<">", " ", "[", "!", "T", "I", "P", "]", "\n", ">", " ", "$", "x", "$", "\n", "\n">>,
       n |-> 1, m |-> 1, k |-> 0, def |-> FALSE],
      [text |-> <<">", " ", "[", "!", "b", "u", "g", "]", " ", "T", "\n", ">", " ", "a", "\n", "\n">>,
       n |-> 0, m |-> 1, k |-> 0, def |-> FALSE],
      [text |-> <<">", " ", "[", "!", "f", "a", "q", "]", " ", "T", "\n", ">", " ", "$", "x", "$", "\n", "\n">>,
       n |-> 1, m |-> 1, k |-> 0, def |-> FALSE],
      [text |-> <<"a", "[", "^", "1", "]", "\n", "\n">>,
       n |-> 0, m |-> 0, k |-> 1, def |-> FALSE],
      [text |-> <<"a", "[", "^", "a", "-", "b", "]", "\n", "\n">>,
       n |-> 0, m |-> 0, k |-> 1, def |-> FALSE],
      [text |-> <<":", ":", ":", "n", "o", "t", "e", "\n", "b", "[", "^", "1", "]", "\n", ":", ":", ":", "\n", "\n">>,
       n |-> 0, m |-> 1, k |-> 1, def |-> FALSE],
      [text |-> <<"[", "^", "1", "]", ":", " ", "a", "\n", "\n">>,
       n |-> 0, m |-> 0, k |-> 0, def |-> TRUE],
      [text |-> <<"[", "^", "a", "-", "b", "]", ":", " ", "$", "x", "$", "\n", "\n">>,
       n |-> 1, m |-> 0, k |-> 0, def |-> TRUE]
    >>

\* starts are the 1-based lines of the document at which the segments that
\* render as a block (all but the footnote definitions) start
RECURSIVE ConcatSegments(_, _)
ConcatSegments(f, j) ==
    IF j > Len(f)
    THEN [text |-> <<>>, n |-> 0, m |-> 0, k |-> 0, starts |-> <<>>]
    ELSE LET s == Segments[f[j]]
             rest == ConcatSegments(f, j + 1)
             lines == Cardinality({p \in 1..Len(s.text) : s.text[p] = "\n"})
         IN  [text |-> s.text \o rest.text, n |-> s.n + rest.n,
              m |-> s.m + rest.m, k |-> s.k + rest.k,
              starts |-> (IF s.def THEN <<>> ELSE <<1>>)
                         \o [i \in 1..Len(rest.starts) |->
                                rest.starts[i] + lines]]

InitPreview ==
    /\ IdleScroll
    /\ previewTop = 0
    /\ previewLineMap = <<>>
    /\ pc = "input"
    /\ \E len \in 0..MaxSegments : \E f \in [1..len -> 1..Len(Segments)] :
          /\ \A a, b \in 1..len :
                Segments[f[a]].def /\ f[a] = f[b] => a = b
          /\ arg = ConcatSegments(f, 1)
    /\ res = "none"

\* updatePreview (main.ts 4914-5176) on the drawn content: the HTML set as
\* preview.innerHTML and the line map rebuilt from it (main.ts 5159-5163)
updatePreview ==
    /\ pc = "input"
    /\ res' = PreviewHtml(arg.text)
    /\ previewLineMap' = LineMapOf(PreviewElements(res', 1, 0), 0, previewTop)
    /\ pc' = "done"
    /\ UNCHANGED <<projectState, archive, render, burstAccepted, viewMode,
                   scrollSyncLock, scrollSyncRaf, rafQueue, frameQueue,
                   editorTop, previewTop, scrollEvt, framesSinceAccept,
                   lastEvent, echoAccepted, arg>>

SpecPreview == InitPreview /\ [][updatePreview]_vars

\* the positions of the HTML where a placeholder token is left
RemainingPlaceholders(html) ==
    {i \in 1..Len(html) :
        \E tok \in {MATH_BLOCK, MATH_INLINE, QIITA_NOTE, GH_ALERT,
                     OBSIDIAN_CALLOUT, FNREF} : StartsWithAt(html, i, tok)}
\* the positions of the HTML where a restored fragment starts: the
\* opening tag of a math expression, of a note, alert or callout, or of a
\* footnote reference
RestoredFragments(html) ==
    {i \in 1..Len(html) :
        html[i] \in {"<div class=\"math-block\">",
                     "<div class=\"math-block math-error\">",
                     "<span class=\"math-inline\">",
                     "<span class=\"math-inline math-error\">",
                     "<div class=\"gh-alert\">",
                     "<div class=\"obsidian-callout\">",
                     "<sup class=\"footnote-ref\">"}
                    \cup {NoteOpen(t) : t \in NoteTypes}}

(***************************************************************************)
(* C6: placeholder completeness.  For a well-formed document with n math   *)
(* expressions, m notes / alerts / callouts and k footnote references, the *)
(* HTML updatePreview produces holds no placeholder token (MATH_BLOCK,     *)
(* MATH_INLINE, QIITA_NOTE, GH_ALERT, OBSIDIAN_CALLOUT, FNREF) and exactly *)
(* n + m + k restored fragments, math inside a note, alert, callout or     *)
(* footnote body and footnote references with any identifier included.     *)
(***************************************************************************)
C6_PlaceholderCompleteness ==
    pc = "done" =>
        /\ RemainingPlaceholders(res) = {}
        /\ Cardinality(RestoredFragments(res)) = arg.n + arg.m + arg.k


(***************************************************************************)
(* Documents in which the user typed the text of a marker.  The markers    *)
(* the preprocessing passes emit are plain text of the content handed to   *)
(* marked (main.ts 4950, 5316, 5340), so a typed marker is the same text.  *)
(***************************************************************************)
MaxContextSegments == 1

\* the typed markers: the first index of three indexed categories
TypedMarkers ==
    <<MATH_INLINE \o <<"0">> \o CommentEnd,
      MATH_BLOCK \o <<"0">> \o CommentEnd,
      QIITA_NOTE \o <<"0">> \o CommentEnd>>

\* a typed marker on a line of its own, before or after up to
\* MaxContextSegments segments of Segments
InitTyped ==
    /\ IdleScroll
    /\ previewTop = 0
    /\ previewLineMap = <<>>
    /\ pc = "input"
    /\ \E len \in 0..MaxContextSegments :
       \E f \in [1..len -> 1..Len(Segments)] :
       \E t \in 1..Len(TypedMarkers) : \E first \in BOOLEAN :
          LET ctx == ConcatSegments(f, 1)
              typed == TypedMarkers[t] \o <<"\n", "\n">>
          IN  /\ \A a, b \in 1..len :
                    Segments[f[a]].def /\ f[a] = f[b] => a = b
              /\ arg = [text |-> IF first THEN typed \o ctx.text
                                 ELSE ctx.text \o typed,
                        n |-> ctx.n, m |-> ctx.m, k |-> ctx.k,
                        typed |-> TypedMarkers[t]]
    /\ res = "none"

SpecTyped == InitTyped /\ [][updatePreview]_vars

(***************************************************************************)
(* C11: placeholders never collide with literal user content.  For a       *)
(* document that holds n math expressions, m notes / alerts / callouts,    *)
(* k footnote references and, typed literally by the user, the text of a   *)
(* marker, restoration inserts no side-table entry at the typed text: the  *)
(* HTML updatePreview produces holds at most n + m + k restored fragments  *)
(* (every side-table entry is inserted once, none a second time).          *)
(***************************************************************************)
C11_NoCollision ==
    pc = "done" =>
        Cardinality(RestoredFragments(res)) <= arg.n + arg.m + arg.k


(***************************************************************************)
(* Project files (main.ts 6198-6331, 6708-6812, 6841-6890, 7547-7586,      *)
(* 7779-7853).  projectState.files is kept as the sequence of the Map's    *)
(* values in insertion order; a file is [id, path, name, content, order].  *)
(* File names and paths are character sequences, contents are opaque.      *)
(* generateUUID is a fresh number; uuids counts the calls made so far.     *)
(***************************************************************************)
MaxFiles == 3
MaxUuids == 5

\* name.endsWith('.md') ? name : `${name}.md`  (main.ts 7562, 7822)
WithMd(name) ==
    IF StartsWithAt(name, Len(name) - 2, <<".", "m", "d">>) THEN name
    ELSE name \o <<".", "m", "d">>
\* name.replace(/\.md$/, '')  (main.ts 7561, 7824)
WithoutMd(name) ==
    IF StartsWithAt(name, Len(name) - 2, <<".", "m", "d">>)
    THEN SubSeq(name, 1, Len(name) - 3) ELSE name

\* the position of the file with this id in files, 0 when there is none
FileIndex(files, fileId) ==
    FirstIn({i \in 1..Len(files) : files[i].id = fileId})

\* openFileInProject(fileId), main.ts 6841-6890
OpenFile(ps, fileId) ==
    LET cur == FileIndex(ps.files, ps.activeFileId)
        kept == IF cur = 0 THEN ps.files
                ELSE [ps.files EXCEPT ![cur].content = ps.editor]
        i == FileIndex(kept, fileId)
    IN  IF i = 0 THEN [ps EXCEPT !.files = kept]
        ELSE [ps EXCEPT !.files = kept, !.activeFileId = fileId,
                        !.editor = kept[i].content]

\* Array.from(files.values()).sort((a, b) => a.order - b.order),
\* main.ts 6729-6730 (the sort is stable)
RECURSIVE SortedFiles(_)
SortedFiles(files) ==
    IF files = <<>> THEN <<>>
    ELSE LET i == FirstIn({j \in 1..Len(files) :
                      \A k \in 1..Len(files) : files[j].order <= files[k].order})
         IN  <<files[i]>>
             \o SortedFiles(SubSeq(files, 1, i - 1)
                            \o SubSeq(files, i + 1, Len(files)))

\* zip.file(path, content) for each file in turn (main.ts 6748-6751): an
\* entry written under a path the archive already holds replaces it
RECURSIVE ZipChapters(_, _)
ZipChapters(sorted, entries) ==
    IF sorted = <<>> THEN entries
    ELSE LET path == <<"chapters/">> \o WithMd(Head(sorted).path)
             i == FirstIn({j \in 1..Len(entries) : entries[j].path = path})
             entry == [path |-> path, content |-> Head(sorted).content]
         IN  ZipChapters(Tail(sorted),
                 IF i = 0 THEN Append(entries, entry)
                 ELSE [entries EXCEPT ![i] = entry])

\* the chapter loop of loadMdebookFromZip (main.ts 6226-6286): a fresh id
\* for every chapter of the manifest that the archive holds
RECURSIVE LoadChapters(_, _, _, _)
LoadChapters(chapters, entries, uuid, order) ==
    IF chapters = <<>> THEN <<>>
    ELSE LET chapterName == Head(chapters)
             i == FirstIn({j \in 1..Len(entries) :
                              entries[j].path
                                  = <<"chapters/">> \o chapterName})
             p == IndexOf(chapterName, <<".", "m", "d">>, 1)
             displayName == IF p = 0 THEN chapterName
                            ELSE SubSeq(chapterName, 1, p - 1)
                                 \o SubSeq(chapterName, p + 3, Len(chapterName))
         IN  IF i = 0
             THEN LoadChapters(Tail(chapters), entries, uuid, order)
             ELSE <<[id |-> uuid + 1, path |-> chapterName,
                     name |-> displayName, content |-> entries[i].content,
                     order |-> order]>>
                  \o LoadChapters(Tail(chapters), entries, uuid + 1, order + 1)

scrollIdle ==
    UNCHANGED <<viewMode, scrollSyncLock, scrollSyncRaf, rafQueue, frameQueue,
                editorTop, previewTop, scrollEvt, previewLineMap,
                framesSinceAccept, lastEvent, echoAccepted, burstAccepted,
                render, pc, arg, res>>

\* createNewFileInProject(fileName, initialContent), main.ts 7815-7853,
\* called by :new, :vnew, :vpaste, the new-file button and the new-file
\* dialog (main.ts 1245-1249, 1409-1423, 4218-4252)
createNewFileInProject(fileName, initialContent) ==
    LET ps == projectState
        fullName == WithMd(fileName)
        id == ps.uuids + 1
        maxOrder == SetMax({0} \cup {ps.files[i].order : i \in 1..Len(ps.files)})
        entry == [id |-> id, path |-> fullName, name |-> WithoutMd(fullName),
                  order |-> maxOrder + 1]
    IN  /\ Len(ps.files) < MaxFiles
        /\ ps.uuids < MaxUuids
        /\ projectState' =
              OpenFile([ps EXCEPT
                           !.uuids = id,
                           !.files = Append(@, entry
                                         @@ [content |-> initialContent]),
                           !.manifest = Append(@, entry),
                           !.loaded = FALSE],
                       id)
        /\ UNCHANGED archive
        /\ scrollIdle

\* renameFileInProject(fileId, newName), main.ts 7547-7586, called by
\* :rename and the rename box of the file tree (main.ts 1491-1499,
\* 7409-7416)
renameFileInProject(fileId, newName) ==
    LET ps == projectState
        i == FileIndex(ps.files, fileId)
        m == FileIndex(ps.manifest, fileId)
        displayName == WithoutMd(newName)
        pathName == WithMd(newName)
    IN  /\ i > 0
        /\ projectState' =
              [ps EXCEPT
                  !.files = [@ EXCEPT ![i].name = displayName,
                                      ![i].path = pathName],
                  !.manifest = IF m = 0 THEN @
                               ELSE [@ EXCEPT ![m].name = displayName,
                                              ![m].path = pathName],
                  !.loaded = FALSE]
        /\ UNCHANGED archive
        /\ scrollIdle

\* a click on a file of the tree (main.ts 6841-6890)
openFileInProject(fileId) ==
    /\ FileIndex(projectState.files, fileId) > 0
    /\ projectState' = [OpenFile(projectState, fileId) EXCEPT !.loaded = FALSE]
    /\ UNCHANGED archive
    /\ scrollIdle

\* saveProject (main.ts 6708-6812); saved is the history of what the
\* project held when it was saved
saveProject ==
    LET ps == OpenFile(projectState, projectState.activeFileId)
        sorted == SortedFiles(ps.files)
    IN  /\ projectState' = [ps EXCEPT !.loaded = FALSE]
        /\ archive' = [written |-> TRUE,
                       chapters |-> [i \in 1..Len(sorted) |->
                                        WithMd(sorted[i].path)],
                       entries |-> ZipChapters(sorted, <<>>),
                       saved |-> sorted]
        /\ scrollIdle

\* loadMdvim on the archive saveProject wrote: its manifest has a chapters
\* array, so loadMdebookFromZip loads it (main.ts 6028-6049, 6198-6331)
loadMdebookFromZip ==
    LET files == LoadChapters(archive.chapters, archive.entries,
                              projectState.uuids, 0)
    IN  /\ archive.written
        /\ projectState.uuids + Len(archive.chapters) <= MaxUuids
        /\ projectState' =
              [isProject |-> TRUE,
               files |-> files,
               manifest |-> [i \in 1..Len(files) |->
                                [id |-> files[i].id, path |-> files[i].path,
                                 name |-> files[i].name,
                                 order |-> files[i].order]],
               activeFileId |-> IF files = <<>> THEN 0 ELSE files[1].id,
               editor |-> IF files = <<>> THEN projectState.editor
                          ELSE files[1].content,
               uuids |-> projectState.uuids + Len(files),
               loaded |-> TRUE]
        /\ UNCHANGED archive
        /\ scrollIdle

\* createNewProject() (main.ts 7779-7813): a project with chapter-1.md
InitProject ==
    /\ viewMode = "split"
    /\ scrollSyncLock = "null"
    /\ scrollSyncRaf = 0
    /\ rafQueue = <<>>
    /\ frameQueue = <<>>
    /\ editorTop = 0
    /\ previewTop = 0
    /\ scrollEvt = [v \in Views |-> "none"]
    /\ previewLineMap = <<>>
    /\ framesSinceAccept = MaxFrames
    /\ lastEvent = "none"
    /\ echoAccepted = FALSE
    /\ burstAccepted = 0
    /\ pc = "project"
    /\ arg = <<>>
    /\ res = <<>>
    /\ archive = [written |-> FALSE]
    /\ render = [active |-> FALSE]
    /\ projectState =
          [isProject |-> TRUE,
           files |-> <<[id |-> 1,
                        path |-> <<"c", "h", "a", "p", "t", "e", "r", "-", "1",
                                   ".", "m", "d">>,
                        name |-> <<"c", "h", "a", "p", "t", "e", "r", "-", "1">>,
                        content |-> "", order |-> 1]>>,
           manifest |-> <<[id |-> 1,
                           path |-> <<"c", "h", "a", "p", "t", "e", "r", "-", "1",
                                      ".", "m", "d">>,
                           name |-> <<"c", "h", "a", "p", "t", "e", "r", "-", "1">>,
                           order |-> 1]>>,
           activeFileId |-> 1, editor |-> "", uuids |-> 1, loaded |-> FALSE]

NextProject ==
    \/ \E fileName \in {<<"a">>, <<"A">>, <<"a", ".", "m", "d">>} : \E initialContent \in {"", "x"} :
          createNewFileInProject(fileName, initialContent)
    \/ \E fileId \in 1..MaxUuids :
       \E newName \in {<<"a">>, <<"A">>, <<"a", ".", "m", "d">>} :
          renameFileInProject(fileId, newName)
    \/ \E fileId \in 1..MaxUuids : openFileInProject(fileId)
    \/ saveProject
    \/ loadMdebookFromZip

SpecProject == InitProject /\ [][NextProject]_vars

(***************************************************************************)
(* C12: no duplicate file names in a project.  Creating a file or renaming *)
(* one to a name another file of the project has (compared without regard  *)
(* to case, the renamed file itself excluded) is rejected, so no two files *)
(* of the project ever have the same name case-insensitively.              *)
(***************************************************************************)
C12_NoDuplicateNames ==
    \A i, j \in 1..Len(projectState.files) :
        ToLowerCase(projectState.files[i].name)
            = ToLowerCase(projectState.files[j].name) => i = j


(***************************************************************************)
(* C13: save/load round trip with equal names.  When a project that held   *)
(* two files of the same name (with different contents) was saved and the  *)
(* archive is loaded, the project holds the saved files again: as many     *)
(* files, in the saved order, each with the id and the content it was      *)
(* saved with.                                                             *)
(***************************************************************************)
C13_SaveLoadRoundTrip ==
    LET saved == archive.saved
        files == projectState.files
    IN  /\ pc = "project"
        /\ projectState.loaded
        /\ \E i, j \in 1..Len(saved) :
              /\ i # j
              /\ saved[i].name = saved[j].name
              /\ saved[i].content # saved[j].content
        => /\ Len(files) = Len(saved)
           /\ \A i \in 1..Len(files) :
                 /\ files[i].id = saved[i].id
                 /\ files[i].content = saved[i].content


(***************************************************************************)
(* annotateTopLevelTokenLines (main.ts 4739-4768) on any source text and   *)
(* any token list, one iteration of its for loop per step.  res holds the  *)
(* loop's state: cursor, the __srcLine of the tokens visited so far (0 for *)
(* a token skipped at main.ts 4759) and, as history, what the last         *)
(* iteration found.                                                        *)
(***************************************************************************)
MaxSrcLen == 4
MaxTokens == 3

InitAnnotate ==
    /\ IdleScroll
    /\ previewTop = 0
    /\ previewLineMap = <<>>
    /\ pc = "annotate"
    /\ \E n \in 0..MaxSrcLen : \E src \in [1..n -> {"a", "\n"}] :
       \E k \in 0..MaxTokens :
       \E raws \in [1..k -> {<<>>, <<"a">>, <<"\n">>, <<"a", "\n">>, <<"b">>}] :
          arg = [src |-> src, tokens |-> raws]
    /\ res = [cursor |-> 0, lines |-> <<>>, last |-> "none"]

\* an iteration that searches the whole text: src.indexOf(raw)
annotateToken_FromStart ==
    LET raw == arg.tokens[Len(res.lines) + 1]
        pos == IndexOf(arg.src, raw, 1) - 1
        start == IF pos >= 0 THEN pos ELSE res.cursor
    IN  /\ pc = "annotate"
        /\ Len(res.lines) < Len(arg.tokens)
        /\ res' = IF raw = <<>>
                  THEN [res EXCEPT !.lines = Append(@, 0), !.last = "skip"]
                  ELSE [cursor |-> start + Len(raw),
                        lines |-> Append(res.lines, indexToLine(arg.src, start)),
                        last |-> IF pos >= 0 THEN "hit" ELSE "miss"]
        /\ UNCHANGED <<projectState, archive, render, burstAccepted, viewMode,
                       scrollSyncLock, scrollSyncRaf, rafQueue,
                       frameQueue, editorTop, previewTop,
                       scrollEvt, previewLineMap,
                       framesSinceAccept, lastEvent, echoAccepted,
                       pc, arg>>

\* an iteration that leaves the cursor where it is when the text is not
\* found
annotateToken_NoAdvance ==
    LET raw == arg.tokens[Len(res.lines) + 1]
        pos == IndexOf(arg.src, raw, res.cursor + 1) - 1
        start == IF pos >= 0 THEN pos ELSE res.cursor
    IN  /\ pc = "annotate"
        /\ Len(res.lines) < Len(arg.tokens)
        /\ res' = IF raw = <<>>
                  THEN [res EXCEPT !.lines = Append(@, 0), !.last = "skip"]
                  ELSE [cursor |-> IF pos >= 0 THEN pos + Len(raw)
                                   ELSE res.cursor,
                        lines |-> Append(res.lines, indexToLine(arg.src, start)),
                        last |-> IF pos >= 0 THEN "hit" ELSE "miss"]
        /\ UNCHANGED <<projectState, archive, render, burstAccepted, viewMode,
                       scrollSyncLock, scrollSyncRaf, rafQueue,
                       frameQueue, editorTop, previewTop,
                       scrollEvt, previewLineMap,
                       framesSinceAccept, lastEvent, echoAccepted,
                       pc, arg>>

\* the body of the for loop (main.ts 4757-4766) for the next token
annotateToken ==
    LET raw == arg.tokens[Len(res.lines) + 1]
        pos == IndexOf(arg.src, raw, res.cursor + 1) - 1
        start == IF pos >= 0 THEN pos ELSE res.cursor
    IN  /\ pc = "annotate"
        /\ Len(res.lines) < Len(arg.tokens)
        /\ res' = IF raw = <<>>
                  THEN [res EXCEPT !.lines = Append(@, 0), !.last = "skip"]
                  ELSE [cursor |-> (IF pos >= 0 THEN pos ELSE res.cursor)
                                       + Len(raw),
                        lines |-> Append(res.lines, indexToLine(arg.src, start)),
                        last |-> IF pos >= 0 THEN "hit" ELSE "miss"]
        /\ UNCHANGED <<projectState, archive, render, burstAccepted, viewMode,
                       scrollSyncLock, scrollSyncRaf, rafQueue,
                       frameQueue, editorTop, previewTop,
                       scrollEvt, previewLineMap,
                       framesSinceAccept, lastEvent, echoAccepted,
                       pc, arg>>

SpecAnnotate == InitAnnotate /\ [][annotateToken]_vars

(***************************************************************************)
(* C14: annotator monotonicity.  For any source text and any token list,   *)
(* the source lines annotateTopLevelTokenLines assigns are at least 1 and  *)
(* non-decreasing in token order, also when a token's raw text occurs only *)
(* earlier in the document or not at all.                                  *)
(***************************************************************************)
C14_AnnotatorMonotone ==
    pc = "annotate" =>
        \A i, j \in 1..Len(res.lines) :
            res.lines[i] # 0 /\ res.lines[j] # 0 /\ i <= j
                => 1 <= res.lines[i] /\ res.lines[i] <= res.lines[j]

\* a token whose raw text occurs only before the cursor was annotated
\* after a token on a later line than the text's first occurrence
C14_Witness ==
    /\ pc = "annotate"
    /\ res.last = "miss"
    /\ Len(res.lines) >= 2
    /\ res.lines[Len(res.lines)] >= 2
    /\ LET raw == arg.tokens[Len(res.lines)]
       IN  /\ IndexOf(arg.src, raw, 1) > 0
           /\ indexToLine(arg.src, IndexOf(arg.src, raw, 1) - 1)
                  < res.lines[Len(res.lines)]

(***************************************************************************)
(* C16: annotator miss.  When a token's raw text is not found at or after  *)
(* the cursor, the token is assigned the line of the current cursor offset *)
(* and the cursor is left unchanged, so that the next token is searched    *)
(* from the same offset.                                                   *)
(***************************************************************************)
C16_MissKeepsCursor ==
    [][pc = "annotate" /\ res'.last = "miss" /\ res' # res
          => /\ res'.lines[Len(res'.lines)] = indexToLine(arg.src, res.cursor)
             /\ res'.cursor = res.cursor]_vars

\* C16 as the code has it: on a miss the token is assigned the line of the
\* current cursor offset and the cursor advances by the length of the
\* token's raw text (main.ts 4766), so that the next token is searched from
\* cursor + raw.length
C16_MissAdvancesCursor ==
    [][pc = "annotate" /\ res'.last = "miss" /\ res' # res
          => /\ res'.lines[Len(res'.lines)] = indexToLine(arg.src, res.cursor)
             /\ res'.cursor
                    = res.cursor + Len(arg.tokens[Len(res'.lines)])]_vars

\* a token was not found after an earlier token had been found on the
\* first line and moved the cursor to a later line
C16_Witness ==
    /\ pc = "annotate"
    /\ res.last = "miss"
    /\ Len(res.lines) >= 2
    /\ res.lines[1] = 1
    /\ res.lines[Len(res.lines)] >= 2
    /\ res.cursor > Len(arg.src)

(***************************************************************************)
(* C15: source-line mapping.  For a document made of blocks, the line      *)
(* number attached to each top-level rendered block (data-src-line) is the *)
(* 1-based line at which the block starts in the document the editor       *)
(* shows, whatever precedes it (math, notes, alerts, callouts, footnote    *)
(* definitions).                                                           *)
(***************************************************************************)
C15_SourceLineMapping ==
    pc = "done" =>
        LET els == PreviewElements(res, 1, 0)
        IN  [i \in 1..Len(els) |-> els[i].attr] = arg.starts

(***************************************************************************)
(* C17: two-phase release.  The drive lock taken for a sync is still held  *)
(* by the sync's source when the animation-frame callback that applies the *)
(* sync returns; it is cleared only in a later animation frame.            *)
(***************************************************************************)
C17_TwoPhaseRelease ==
    [][(/\ pc = "scroll"
        /\ frameQueue # <<>>
        /\ Head(frameQueue).kind = "sync"
        /\ scrollSyncRaf' = 0 \/ scrollSyncRaf' # scrollSyncRaf
        /\ frameQueue' # frameQueue)
       => scrollSyncLock' = Head(frameQueue).source]_vars

(***************************************************************************)
(* C18: at most one scroll-sync animation frame is pending at any time.    *)
(* After a burst of accepted scroll events between two animation frames    *)
(* exactly one sync callback is registered; it is the one scrollSyncRaf    *)
(* names and it syncs from the view that holds the drive lock.             *)
(***************************************************************************)
C18_OnePendingSync ==
    pc = "scroll" =>
        LET pending == {i \in 1..Len(rafQueue) : rafQueue[i].kind = "sync"}
            running == {i \in 1..Len(frameQueue) : frameQueue[i].kind = "sync"}
        IN  /\ Cardinality(pending) + Cardinality(running) <= 1
            /\ burstAccepted >= 1 /\ frameQueue = <<>>
                  => \E i \in pending :
                        /\ rafQueue[i].h = scrollSyncRaf
                        /\ rafQueue[i].source = scrollSyncLock

\* two or more events of a burst were accepted and the burst is over
C18_Witness ==
    /\ pc = "scroll"
    /\ burstAccepted >= 2
    /\ frameQueue = <<>>
    /\ \A v \in Views : scrollEvt[v] = "none"
    /\ scrollSyncRaf # 0

(***************************************************************************)
(* C19: hysteresis.  In both directions a sync in split mode leaves the    *)
(* target view's scroll offset unchanged when the computed target differs  *)
(* from it by less than SCROLL_HYSTERESIS_PX (8), and sets it to the       *)
(* target (whole pixels within the view's scroll range) when the           *)
(* difference is at least 8; the source view's offset is not touched.      *)
(***************************************************************************)
C19_Hysteresis ==
    [][(/\ pc = "scroll"
        /\ viewMode = "split"
        /\ frameQueue # <<>>
        /\ Head(frameQueue).kind = "sync"
        /\ frameQueue' # frameQueue)
       => LET map == previewLineMap
              toPreview ==
                  IF Len(map) >= 2
                  THEN interpolatePreviewPosition(map, TopLine(editorTop),
                                                  PreviewMaxScroll)
                  ELSE Rat(editorTop * PreviewMaxScroll, EditorMaxScroll)
              toEditor ==
                  IF Len(map) >= 2
                  THEN RatInt(getTopForLineNumber(
                                  interpolateEditorLine(map, previewTop)))
                  ELSE Rat(previewTop * EditorMaxScroll, PreviewMaxScroll)
              near(t, cur) ==
                  /\ SCROLL_HYSTERESIS_PX * t.den > t.num - cur * t.den
                  /\ SCROLL_HYSTERESIS_PX * t.den > cur * t.den - t.num
          IN  IF Head(frameQueue).source = "editor"
              THEN /\ editorTop' = editorTop
                   /\ previewTop' =
                         IF near(toPreview, previewTop) THEN previewTop
                         ELSE SetScrollTop(toPreview, PreviewMaxScroll)
              ELSE /\ previewTop' = previewTop
                   /\ editorTop' =
                         IF near(toEditor, editorTop) THEN editorTop
                         ELSE SetScrollTop(toEditor, EditorMaxScroll)]_vars

\* a sync from the editor has run in the frame that just ended and left
\* the preview where it was, less than 8 pixels from the target, and no
\* scroll event has been raised since
C19_Witness ==
    /\ pc = "scroll"
    /\ viewMode = "split"
    /\ frameQueue = <<>>
    /\ \E i \in 1..Len(rafQueue) :
          rafQueue[i].kind = "release" /\ rafQueue[i].source = "editor"
    /\ scrollSyncLock = "editor"
    /\ burstAccepted = 0
    /\ lastEvent = "accepted"
    /\ \A v \in Views : scrollEvt[v] = "none"
    /\ Len(previewLineMap) >= 2
    /\ LET t == interpolatePreviewPosition(previewLineMap, TopLine(editorTop),
                                           PreviewMaxScroll)
       IN  /\ ~RatEq(t, RatInt(previewTop))
           /\ RatAbsDiffLt(t, previewTop, SCROLL_HYSTERESIS_PX)

(***************************************************************************)
(* interpolateEditorLine on bounded line maps: lines strictly increasing,  *)
(* tops in any order                                                       *)
(***************************************************************************)
InitEditorLine ==
    /\ IdleScroll
    /\ previewLineMap = <<>>
    /\ pc = "input"
    /\ \E n \in 2..MaxAnchors : \E ls \in [1..n -> 1..MaxLine] :
          /\ \A i \in 1..(n - 1) : ls[i] < ls[i + 1]
          /\ \E ts \in [1..n -> {-8, 0, 8, 40}] :
                arg = [map |-> MakeLineMap(n, ls, ts)]
    /\ previewTop \in {0, 4, 8, 24, 40, 48}
    /\ res = "none"

\* syncScrollFromPreview's call at main.ts 4586 on the drawn map and
\* preview offset; lower and upper are the anchors the search chose
CallInterpolateEditorLine ==
    /\ pc = "input"
    /\ previewLineMap' = arg.map
    /\ res' = [line |-> interpolateEditorLine(arg.map, previewTop),
               lower |-> EditorAnchors(arg.map, previewTop)[1],
               upper |-> EditorAnchors(arg.map, previewTop)[2]]
    /\ pc' = "done"
    /\ UNCHANGED <<projectState, archive, render, burstAccepted, viewMode,
                   scrollSyncLock, scrollSyncRaf, rafQueue, frameQueue,
                   editorTop, previewTop, scrollEvt, framesSinceAccept,
                   lastEvent, echoAccepted, arg>>

SpecEditorLine == InitEditorLine /\ [][CallInterpolateEditorLine]_vars

(***************************************************************************)
(* C20: preview-to-editor interpolation tolerates any tops.  For every map *)
(* with at least 2 anchors (lines strictly increasing, tops in any order)  *)
(* and every preview scroll offset, interpolateEditorLine brackets the     *)
(* offset with a single anchor or with two adjacent anchors whose tops     *)
(* differ (no division by zero), returns an integer line between the lines *)
(* of the bracketing anchors, hence within [first line, last line], and,   *)
(* when several anchors share the queried top, the smallest of their       *)
(* lines.                                                                  *)
(***************************************************************************)
C20_AnyTops ==
    pc = "done" =>
        LET m == arg.map
            shared == {i \in 1..Len(m) : m[i].top = previewTop}
        IN  /\ \/ res.lower = res.upper /\ res.line = res.lower.line
               \/ \E i \in 1..(Len(m) - 1) :
                     /\ res.lower = m[i] /\ res.upper = m[i + 1]
                     /\ m[i].top < previewTop /\ previewTop < m[i + 1].top
            /\ res.line \in Int
            /\ res.lower.line <= res.line /\ res.line <= res.upper.line
            /\ m[1].line <= res.line /\ res.line <= m[Len(m)].line
            /\ Cardinality(shared) >= 2 => res.line = m[SetMin(shared)].line

\* C20 as the code has it: the smallest line of the anchors that share the
\* queried top is returned when every anchor before them has a smaller top
C20_AnyTopsFirstMatch ==
    pc = "done" =>
        LET m == arg.map
            shared == {i \in 1..Len(m) : m[i].top = previewTop}
        IN  /\ \/ res.lower = res.upper /\ res.line = res.lower.line
               \/ \E i \in 1..(Len(m) - 1) :
                     /\ res.lower = m[i] /\ res.upper = m[i + 1]
                     /\ m[i].top < previewTop /\ previewTop < m[i + 1].top
            /\ res.line \in Int
            /\ res.lower.line <= res.line /\ res.line <= res.upper.line
            /\ m[1].line <= res.line /\ res.line <= m[Len(m)].line
            /\ (/\ Cardinality(shared) >= 2
                /\ \A j \in 1..(SetMin(shared) - 1) : m[j].top < previewTop)
                  => res.line = m[SetMin(shared)].line

\* tops out of order, two anchors at the queried top with no greater top
\* before them, and the smaller of their lines returned
C20_Witness ==
    /\ pc = "done"
    /\ \E i \in 1..(Len(arg.map) - 1) : arg.map[i].top > arg.map[i + 1].top
    /\ LET shared == {i \in 1..Len(arg.map) : arg.map[i].top = previewTop}
       IN  /\ Cardinality(shared) >= 2
           /\ res.line = arg.map[SetMin(shared)].line

(***************************************************************************)
(* C26: whenever a scroll-sync animation frame is pending, the drive lock  *)
(* is held by the view that scheduled it; the release callback of an       *)
(* earlier sync never clears the lock while a later sync frame is pending, *)
(* so no sync is applied while the lock is null.                           *)
(***************************************************************************)
C26_LockHeldWhilePending ==
    pc = "scroll" =>
        /\ \A i \in 1..Len(rafQueue) :
              rafQueue[i].kind = "sync" => scrollSyncLock = rafQueue[i].source
        /\ \A i \in 1..Len(frameQueue) :
              frameQueue[i].kind = "sync" => scrollSyncLock = frameQueue[i].source

(***************************************************************************)
(* Preview rendering: the debounce timer, the delayed line-map rebuild and *)
(* the asynchronous diagram rendering (main.ts 4143-4152, 4893-4896,       *)
(* 4914-5176, 5225-5259).  Time advances in ticks of 50 ms; a timer holds  *)
(* the ticks left until it is due and runs when none are left.  A document *)
(* is an opaque value; "m" is a document with one mermaid block.           *)
(* render.dom is what preview.innerHTML shows (the document and the number *)
(* of diagrams that replaced their <pre>), render.lineMap the layout the   *)
(* last rebuildPreviewLineMap measured.  History: render.burst counts the  *)
(* change events since the last debounced render, render.coalesced the     *)
(* events that render stood for, render.sinceChange the ticks since the    *)
(* last change event, render.late the kinds of work of an older render     *)
(* cycle that ran after a newer render had started.                        *)
(***************************************************************************)
PreviewDelay == 3
RebuildDelay == 2
MaxRebuilds == 2
MaxTasks == 2

Docs == {"a", "b", "m"}
Diagrams(doc) == IF doc = "m" THEN 1 ELSE 0
RenderSteps == <<"preprocess", "parse", "restore", "fold", "linemap">>

\* a timer id no registered timer has and previewTimeout does not hold
FreshTimer(st) ==
    CHOOSE h \in 1..(Len(st.timers) + 2) :
        /\ h # st.previewTimeout
        /\ \A i \in 1..Len(st.timers) : st.timers[i].h # h
        /\ \A g \in 1..(h - 1) :
              g = st.previewTimeout \/ \E i \in 1..Len(st.timers) : st.timers[i].h = g

\* updatePreviewDebounced that does not clear the timer it replaces
updatePreviewDebounced_NoClear(st) ==
    LET h == FreshTimer(st)
    IN  [st EXCEPT !.previewTimeout = h,
                   !.timers = Append(st.timers,
                        [h |-> h, kind |-> "render", left |-> PreviewDelay,
                         stale |-> FALSE]),
                   !.burst = Min(@ + 1, MaxBurst), !.sinceChange = 0]

\* updatePreviewDebounced, main.ts 4893-4896
updatePreviewDebounced(st) ==
    LET cleared == [st EXCEPT !.timers = CancelHandle(st.timers, st.previewTimeout)]
        h == FreshTimer(cleared)
    IN  [cleared EXCEPT !.previewTimeout = h,
                        !.timers = Append(cleared.timers,
                             [h |-> h, kind |-> "render", left |-> PreviewDelay,
                              stale |-> FALSE]),
                        !.burst = Min(@ + 1, MaxBurst), !.sinceChange = 0]

\* updatePreview, main.ts 4914-5176: the synchronous pipeline, the line map
\* built from the fresh DOM, renderMermaidDiagrams up to its first await,
\* and the delayed rebuild.  Whatever earlier renders left behind (timers,
\* diagram tasks) stays registered and belongs to an older cycle from now on.
UpdatePreview(st) ==
    LET dom == [doc |-> st.content, rendered |-> 0]
        older == [st EXCEPT
                     !.timers = [i \in 1..Len(st.timers) |->
                                    [st.timers[i] EXCEPT !.stale = TRUE]],
                     !.tasks = [i \in 1..Len(st.tasks) |->
                                   [st.tasks[i] EXCEPT !.stale = TRUE]]]
    IN  [older EXCEPT
            !.steps = RenderSteps,
            !.dom = dom,
            !.lineMap = dom,
            !.tasks = IF Diagrams(st.content) > 0
                      THEN Append(older.tasks,
                                  [left |-> Diagrams(st.content), stale |-> FALSE])
                      ELSE older.tasks,
            !.timers = Append(older.timers,
                              [h |-> FreshTimer(older), kind |-> "rebuild",
                               left |-> RebuildDelay, stale |-> FALSE])]

Rebuilds(st) == {i \in 1..Len(st.timers) : st.timers[i].kind = "rebuild"}

\* the state some time after start-up (main.ts 581): the initial document
\* is rendered, its delayed rebuild has run
InitRender ==
    /\ viewMode = "split"
    /\ scrollSyncLock = "null"
    /\ scrollSyncRaf = 0
    /\ rafQueue = <<>>
    /\ frameQueue = <<>>
    /\ editorTop = 0
    /\ previewTop = 0
    /\ scrollEvt = [v \in Views |-> "none"]
    /\ previewLineMap = <<>>
    /\ framesSinceAccept = MaxFrames
    /\ lastEvent = "none"
    /\ echoAccepted = FALSE
    /\ burstAccepted = 0
    /\ projectState = [isProject |-> FALSE]
    /\ archive = [written |-> FALSE]
    /\ pc = "render"
    /\ arg = <<>>
    /\ res = <<>>
    /\ render = [active |-> TRUE, content |-> "a", previewTimeout |-> 0,
                 timers |-> <<>>, tasks |-> <<>>,
                 dom |-> [doc |-> "a", rendered |-> 0],
                 lineMap |-> [doc |-> "a", rendered |-> 0],
                 steps |-> RenderSteps, late |-> {},
                 burst |-> 0, coalesced |-> 0, sinceChange |-> PreviewDelay]

renderIdle ==
    UNCHANGED <<viewMode, scrollSyncLock, scrollSyncRaf, rafQueue, frameQueue,
                editorTop, previewTop, scrollEvt, previewLineMap,
                framesSinceAccept, lastEvent, echoAccepted, burstAccepted,
                projectState, archive, pc, arg, res>>

\* the editor's content-change listener after an edit, main.ts 4143-4152
onDidChangeModelContent(doc) ==
    /\ pc = "render"
    /\ doc # render.content
    /\ Len(render.tasks) < MaxTasks
    /\ render' = updatePreviewDebounced([render EXCEPT !.content = doc])
    /\ renderIdle

\* a file switch: editor.setValue raises the content-change event, then
\* updatePreview is called directly (main.ts 6877-6895, 8110-8113, 8141-8144)
switchFile(doc) ==
    /\ pc = "render"
    /\ Len(render.tasks) < MaxTasks
    /\ Cardinality(Rebuilds(render)) < MaxRebuilds
    /\ render' = UpdatePreview(
                     updatePreviewDebounced([render EXCEPT !.content = doc]))
    /\ renderIdle

\* 50 ms pass; due timers run first
Tick ==
    /\ pc = "render"
    /\ \A i \in 1..Len(render.timers) : render.timers[i].left > 0
    /\ render.timers # <<>> \/ render.sinceChange < PreviewDelay
    /\ render' = [render EXCEPT
                     !.timers = [i \in 1..Len(render.timers) |->
                                    [render.timers[i] EXCEPT !.left = @ - 1]],
                     !.sinceChange = Min(@ + 1, PreviewDelay)]
    /\ renderIdle

\* the oldest due timer runs: the debounced updatePreview (main.ts 4895) or
\* the delayed rebuildPreviewLineMap (main.ts 5168)
RunTimer ==
    /\ pc = "render"
    /\ \E i \in 1..Len(render.timers) :
          /\ render.timers[i].left = 0
          /\ \A j \in 1..(i - 1) : render.timers[j].left > 0
          /\ LET t == render.timers[i]
                 st == [render EXCEPT
                           !.timers = CancelHandle(render.timers, t.h),
                           !.late = IF t.stale THEN @ \cup {t.kind} ELSE @]
             IN  render' =
                    IF t.kind = "render"
                    THEN UpdatePreview([st EXCEPT !.burst = 0, !.coalesced = st.burst])
                    ELSE [st EXCEPT !.lineMap = st.dom]
    /\ renderIdle

\* mermaid.render resolves for a diagram of task i and the loop replaces its
\* <pre> (main.ts 5243-5252); the <pre> of an older cycle is no longer in
\* the document and replacing it changes nothing on screen
MermaidStep(i) ==
    /\ pc = "render"
    /\ i \in 1..Len(render.tasks)
    /\ LET t == render.tasks[i]
           rest == [j \in 1..(Len(render.tasks) - 1) |->
                       render.tasks[IF j < i THEN j ELSE j + 1]]
       IN  render' = [render EXCEPT
                         !.tasks = IF t.left = 1 THEN rest
                                   ELSE [@ EXCEPT ![i].left = t.left - 1],
                         !.dom = IF t.stale THEN @
                                 ELSE [@ EXCEPT !.rendered = @ + 1],
                         !.late = IF t.stale THEN @ \cup {"diagram"} ELSE @]
    /\ renderIdle

NextRender ==
    \/ \E doc \in Docs : onDidChangeModelContent(doc)
    \/ \E doc \in Docs : switchFile(doc)
    \/ Tick
    \/ RunTimer
    \/ \E i \in 1..MaxTasks + 1 : MermaidStep(i)

SpecRender == InitRender /\ [][NextRender]_vars

\* timers run when due, time passes, and mermaid.render resolves; the user
\* need not do anything
SpecRenderFair ==
    /\ SpecRender
    /\ WF_vars(Tick)
    /\ WF_vars(RunTimer)
    /\ WF_vars(\E i \in 1..MaxTasks + 1 : MermaidStep(i))

(***************************************************************************)
(* C21: render debounce.  A burst of content-change events, each less than *)
(* the debounce delay after the one before, gives exactly one preview      *)
(* render: at most one debounce timer is outstanding, it is outstanding    *)
(* exactly while change events wait for their render, it is the one        *)
(* previewTimeout names and is due one debounce delay after the last       *)
(* event; when it runs it renders the content the editor holds then.       *)
(***************************************************************************)
C21_RenderDebounce ==
    /\ [](pc = "render" =>
            LET pending == {i \in 1..Len(render.timers) :
                               render.timers[i].kind = "render"}
            IN  /\ Cardinality(pending) <= 1
                /\ render.burst > 0 <=> pending # {}
                /\ \A i \in pending :
                      /\ render.timers[i].h = render.previewTimeout
                      /\ render.timers[i].left = PreviewDelay - render.sinceChange)
    /\ [][(/\ pc = "render"
           /\ render.burst > 0
           /\ render'.burst = 0)
          => /\ render.sinceChange = PreviewDelay
             /\ render'.content = render.content
             /\ render'.dom = [doc |-> render.content, rendered |-> 0]
             /\ render'.coalesced = render.burst]_vars

\* the debounced render has run for a burst of two or more events and shows
\* the editor's content
C21_Witness ==
    /\ pc = "render"
    /\ render.coalesced >= 2
    /\ render.burst = 0
    /\ render.dom.doc = render.content
    /\ render.content # "a"

(***************************************************************************)
(* C22: at most one deferred line-map rebuild is outstanding at any time.  *)
(* When a render schedules its delayed rebuildPreviewLineMap, every        *)
(* delayed rebuild an earlier render scheduled has run or was cancelled.   *)
(***************************************************************************)
C22_OneDeferredRebuild ==
    pc = "render" => Cardinality(Rebuilds(render)) <= 1

(***************************************************************************)
(* C23: diagram completion triggers a rebuild.  Whenever asynchronous      *)
(* diagram rendering has replaced a diagram of the document on screen, the *)
(* line map is rebuilt afterwards: eventually the line map reflects the    *)
(* layout that contains the rendered diagrams.  (A newer render that       *)
(* resets the document, or a change event still waiting for its debounced  *)
(* render, counts as an answer too: the claim is about a cycle that is     *)
(* left alone.)                                                            *)
(***************************************************************************)
C23_RebuildAfterDiagrams ==
    (pc = "render" /\ render.dom.rendered > 0)
        ~> \/ render.lineMap = render.dom
           \/ render.dom.rendered = 0
           \/ render.burst > 0

(***************************************************************************)
(* C24: render cycles do not interleave.  A render runs its steps in the   *)
(* order Preprocess, Parse/Annotate, Restore, Foldable Build, Line-Map     *)
(* Build; no work of a render cycle (its delayed rebuild, its diagram      *)
(* rendering) runs after a newer render has started; a debounced render    *)
(* that is pending when a render is started directly never runs.           *)
(***************************************************************************)
C24_NoInterleaving ==
    pc = "render" =>
        /\ render.steps = <<"preprocess", "parse", "restore", "fold", "linemap">>
        /\ render.late = {}

(***************************************************************************)
(* C25: footnote references.  Every inline reference [^id] of the source,  *)
(* for every identifier, is replaced in the final HTML by a superscript:   *)
(* no FNREF placeholder is left, there are as many footnote superscripts   *)
(* as references, and a superscript carries a link to the footnote exactly *)
(* when the source holds a definition [^id]: of its identifier (otherwise  *)
(* it is the bare bracketed id).                                           *)
(***************************************************************************)
C25_FootnoteRefs ==
    pc = "done" =>
        LET sups == {i \in 1..Len(res) : res[i] = "<sup class=\"footnote-ref\">"}
            idOf(i) ==
                LET open == SetMin({p \in i..Len(res) : res[p] = "["})
                    close == SetMin({p \in open..Len(res) : res[p] = "]"})
                IN  SubSeq(res, open + 1, close - 1)
            defined(id) ==
                \E p \in 1..Len(arg.text) :
                    /\ AtLineStart(arg.text, p)
                    /\ StartsWithAt(arg.text, p, <<"[", "^">> \o id \o <<"]", ":">>)
        IN  /\ \A i \in 1..Len(res) : ~StartsWithAt(res, i, FNREF)
            /\ Cardinality(sups) = arg.k
            /\ \A i \in sups :
                  (res[i + 1] = "<a href=\"#fn-") <=> defined(idOf(i))

(***************************************************************************)
(* The project workspace: tabs, navigation history and the modified marks  *)
(* (main.ts 4143-4152, 6708-6812, 6841-6927, 7496-7566, 7815-7853,         *)
(* 7940-7970, 7992-8006, 8088-8148).  Here projectState.files holds        *)
(* [id, content, modified]; activeFileId 0 stands for null; history and    *)
(* historyIndex are the source's (historyIndex counts from 0, -1 for       *)
(* none); modified is this.modified.  History: unsaved holds the ids of    *)
(* the files of the project whose content was edited since the last        *)
(* successful save, closed tells how closeProject ended.                   *)
(***************************************************************************)
MaxHistory == 3
MaxWorkFiles == 2
MaxWorkIds == 3

FileIds(ps) == {ps.files[i].id : i \in 1..Len(ps.files)}

\* openFileInProject(fileId) with the tabs and the history, main.ts 6841-6897
OpenInTab(ps, fileId) ==
    LET cur == FileIndex(ps.files, ps.activeFileId)
        kept == IF cur = 0 THEN ps.files
                ELSE [ps.files EXCEPT ![cur].content = ps.editor]
        i == FileIndex(kept, fileId)
        top == IF ps.historyIndex >= 0 /\ ps.historyIndex < Len(ps.history)
               THEN ps.history[ps.historyIndex + 1] ELSE 0
        history == IF top # fileId
                   THEN Append(SubSeq(ps.history, 1, ps.historyIndex + 1), fileId)
                   ELSE ps.history
    IN  IF i = 0 THEN [ps EXCEPT !.files = kept]
        ELSE [ps EXCEPT
                 !.files = kept,
                 !.activeFileId = fileId,
                 !.openTabs = IF \E t \in 1..Len(@) : @[t] = fileId
                              THEN @ ELSE Append(@, fileId),
                 !.history = history,
                 !.historyIndex = IF top # fileId THEN Len(history) - 1 ELSE @,
                 !.editor = kept[i].content,
                 !.modified = kept[i].modified]

\* array.splice(index, 1)
Splice(seq, index) ==
    [j \in 1..(Len(seq) - 1) |-> seq[IF j < index THEN j ELSE j + 1]]

\* the body goBackInHistory and goForwardInHistory share once historyIndex
\* is moved (main.ts 8093-8115, 8124-8146)
OpenFromHistory(ps, index) ==
    LET moved == [ps EXCEPT !.historyIndex = index]
        fileId == ps.history[index + 1]
        cur == FileIndex(ps.files, ps.activeFileId)
        kept == IF cur = 0 THEN ps.files
                ELSE [ps.files EXCEPT ![cur].content = ps.editor]
        i == FileIndex(kept, fileId)
    IN  IF i = 0 THEN [moved EXCEPT !.files = kept]
        ELSE [moved EXCEPT
                 !.files = kept,
                 !.activeFileId = fileId,
                 !.openTabs = IF \E t \in 1..Len(@) : @[t] = fileId
                              THEN @ ELSE Append(@, fileId),
                 !.editor = kept[i].content,
                 !.modified = TRUE]    \* set by the listener, not reset

\* the successful path of saveProject, main.ts 6708-6812
SavedProject(ps) ==
    LET cur == FileIndex(ps.files, ps.activeFileId)
        kept == IF cur = 0 THEN ps.files
                ELSE [ps.files EXCEPT ![cur].content = ps.editor]
    IN  [ps EXCEPT
            !.files = [i \in 1..Len(kept) |-> [kept[i] EXCEPT !.modified = FALSE]],
            !.modifiedFiles = {},
            !.unsaved = {}]

\* closeProject once it goes ahead, main.ts 7948-7969
ClosedProject(ps, how) ==
    [ps EXCEPT !.isProject = FALSE, !.files = <<>>, !.activeFileId = 0,
               !.openTabs = <<>>, !.modifiedFiles = {}, !.history = <<>>,
               !.historyIndex = -1, !.editor = "", !.modified = FALSE,
               !.closed = how]

\* createNewProject, main.ts 7781-7813: the project with chapter-1
InitTabs ==
    /\ viewMode = "split"
    /\ scrollSyncLock = "null"
    /\ scrollSyncRaf = 0
    /\ rafQueue = <<>>
    /\ frameQueue = <<>>
    /\ editorTop = 0
    /\ previewTop = 0
    /\ scrollEvt = [v \in Views |-> "none"]
    /\ previewLineMap = <<>>
    /\ framesSinceAccept = MaxFrames
    /\ lastEvent = "none"
    /\ echoAccepted = FALSE
    /\ burstAccepted = 0
    /\ pc = "tabs"
    /\ arg = <<>>
    /\ res = <<>>
    /\ archive = [written |-> FALSE]
    /\ render = [active |-> FALSE]
    /\ projectState =
          [isProject |-> TRUE,
           files |-> <<[id |-> 1, content |-> "", modified |-> FALSE]>>,
           activeFileId |-> 1, openTabs |-> <<1>>, modifiedFiles |-> {1},
           history |-> <<1>>, historyIndex |-> 0, editor |-> "",
           modified |-> FALSE, uuids |-> 1, unsaved |-> {},
           closed |-> "no"]

\* a step of the workspace to the state ps; the history stays within
\* MaxHistory entries
TabsStep(ps) ==
    /\ pc = "tabs"
    /\ projectState.isProject
    /\ Len(ps.history) <= MaxHistory
    /\ projectState' = ps
    /\ UNCHANGED archive
    /\ scrollIdle

\* the content-change listener after an edit, main.ts 4143-4152
editContent(content) ==
    /\ projectState.activeFileId # 0
    /\ content # projectState.editor
    /\ TabsStep([projectState EXCEPT
                    !.editor = content, !.modified = TRUE,
                    !.unsaved = @ \cup {projectState.activeFileId}])

\* :new, main.ts 1245-1249: createNewFileInProject with an empty file
exNew ==
    /\ Len(projectState.files) < MaxWorkFiles
    /\ projectState.uuids < MaxWorkIds
    /\ LET id == projectState.uuids + 1
       IN  TabsStep(OpenInTab(
               [projectState EXCEPT
                   !.uuids = id,
                   !.files = Append(@, [id |-> id, content |-> "",
                                        modified |-> FALSE]),
                   !.modifiedFiles = @ \cup {id}],
               id))

\* :rename, renameFileInProject main.ts 7547-7566 (the names are left out)
exRename(fileId) ==
    LET i == FileIndex(projectState.files, fileId)
    IN  /\ i # 0
        /\ TabsStep([projectState EXCEPT !.files[i].modified = TRUE,
                                         !.modifiedFiles = @ \cup {fileId}])

\* switchToBuffer, main.ts 8008-8020, and a click in the explorer
switchToBuffer(fileId) ==
    /\ fileId \in FileIds(projectState)
    /\ fileId # projectState.activeFileId
    /\ TabsStep(OpenInTab(projectState, fileId))

\* nextBuffer, main.ts 7992-7998
nextBuffer ==
    LET tabs == projectState.openTabs
        currentIndex == FirstIn({t \in 1..Len(tabs) :
                                    tabs[t] = projectState.activeFileId}) - 1
    IN  /\ Len(tabs) > 1
        /\ TabsStep(OpenInTab(projectState,
                              tabs[((currentIndex + 1) % Len(tabs)) + 1]))

\* prevBuffer, main.ts 8000-8006
prevBuffer ==
    LET tabs == projectState.openTabs
        currentIndex == FirstIn({t \in 1..Len(tabs) :
                                    tabs[t] = projectState.activeFileId}) - 1
    IN  /\ Len(tabs) > 1
        /\ TabsStep(OpenInTab(projectState,
                              tabs[(IF currentIndex <= 0 THEN Len(tabs) - 1
                                    ELSE currentIndex - 1) + 1]))

\* closeFileInProject(fileId), main.ts 6899-6927, when the confirmation it
\* asks for a file marked modified is accepted
closeFileInProject(fileId) ==
    LET ps == projectState
        index == FirstIn({t \in 1..Len(ps.openTabs) : ps.openTabs[t] = fileId})
        tabs == Splice(ps.openTabs, index)
        removed == [ps EXCEPT !.openTabs = tabs]
    IN  /\ index # 0
        /\ TabsStep(IF ps.activeFileId # fileId THEN removed
                    ELSE IF tabs # <<>>
                    THEN OpenInTab(removed, tabs[Max(1, index - 1)])
                    ELSE [removed EXCEPT !.activeFileId = 0, !.editor = "",
                                         !.modified = TRUE])

\* deleteFileFromProject confirmed, doDeleteFile main.ts 7496-7537
doDeleteFile(fileId) ==
    LET ps == projectState
        i == FileIndex(ps.files, fileId)
        tabIndex == FirstIn({t \in 1..Len(ps.openTabs) : ps.openTabs[t] = fileId})
        removed == [ps EXCEPT
                       !.files = Splice(@, i),
                       !.modifiedFiles = @ \ {fileId},
                       !.unsaved = @ \ {fileId},
                       !.openTabs = IF tabIndex # 0 THEN Splice(@, tabIndex)
                                    ELSE @]
    IN  /\ i # 0
        /\ TabsStep(IF ps.activeFileId # fileId THEN removed
                    ELSE IF removed.files # <<>>
                    THEN OpenInTab(removed, removed.files[1].id)
                    ELSE [removed EXCEPT !.activeFileId = 0, !.editor = "",
                                         !.modified = TRUE])

\* goBackInHistory, main.ts 8088-8117
goBackInHistory ==
    /\ projectState.historyIndex > 0
    /\ TabsStep(OpenFromHistory(projectState, projectState.historyIndex - 1))

\* goForwardInHistory, main.ts 8119-8148
goForwardInHistory ==
    /\ projectState.historyIndex < Len(projectState.history) - 1
    /\ TabsStep(OpenFromHistory(projectState, projectState.historyIndex + 1))

\* :w in project mode with a save that succeeds, main.ts 6708-6812
exWrite ==
    /\ projectState.unsaved # {} \/ projectState.modifiedFiles # {}
    /\ TabsStep(SavedProject(projectState))

\* :q in project mode, main.ts 1191-1201: closeProject, main.ts 7940-7970,
\* which asks for confirmation when modifiedFiles is not empty; a declined
\* confirmation changes nothing
exQuit ==
    TabsStep(ClosedProject(projectState,
                           IF projectState.modifiedFiles # {} THEN "confirmed"
                           ELSE "silent"))

\* :x in project mode, main.ts 1214-1227: saveProject when modifiedFiles is
\* not empty, then closeProject
exXit ==
    TabsStep(ClosedProject(IF projectState.modifiedFiles # {}
                           THEN SavedProject(projectState) ELSE projectState,
                           "silent"))

NextTabs ==
    \/ \E content \in {"", "x"} : editContent(content)
    \/ exNew
    \/ \E fileId \in 1..MaxWorkIds : exRename(fileId)
    \/ \E fileId \in 1..MaxWorkIds : switchToBuffer(fileId)
    \/ nextBuffer
    \/ prevBuffer
    \/ \E fileId \in 1..MaxWorkIds : closeFileInProject(fileId)
    \/ \E fileId \in 1..MaxWorkIds : doDeleteFile(fileId)
    \/ goBackInHistory
    \/ goForwardInHistory
    \/ exWrite
    \/ exQuit
    \/ exXit

SpecTabs == InitTabs /\ [][NextTabs]_vars

(***************************************************************************)
(* C27: unsaved edits are never discarded silently in project mode.  When  *)
(* the content of a project file was edited since the last successful      *)
(* save, closing the project (:q, :x) asks for confirmation before the     *)
(* project state and the editor are cleared.                               *)
(***************************************************************************)
C27_NoSilentDiscard ==
    (pc = "tabs" /\ projectState.closed = "silent") => projectState.unsaved = {}

(***************************************************************************)
(* C28: project references stay valid.  activeFileId is null or the id of  *)
(* an existing file, openTabs holds no duplicates and only ids of existing *)
(* files, every entry of the navigation history is the id of an existing   *)
(* file, and historyIndex lies between -1 and length(history) - 1.         *)
(***************************************************************************)
C28_ValidReferences ==
    pc = "tabs" =>
        LET ps == projectState
        IN  /\ ps.activeFileId = 0 \/ ps.activeFileId \in FileIds(ps)
            /\ \A a, b \in 1..Len(ps.openTabs) :
                  ps.openTabs[a] = ps.openTabs[b] => a = b
            /\ \A t \in 1..Len(ps.openTabs) : ps.openTabs[t] \in FileIds(ps)
            /\ \A h \in 1..Len(ps.history) : ps.history[h] \in FileIds(ps)
            /\ ps.historyIndex >= -1
            /\ ps.historyIndex <= Len(ps.history) - 1

(***************************************************************************)
(* convertToFoldable on arbitrary HTML: any sequence of heading tags       *)
(* (matched or not), text and line breaks                                  *)
(***************************************************************************)
MaxHtmlLen == 5

InitFoldAny ==
    /\ IdleScroll
    /\ previewTop = 0
    /\ previewLineMap = <<>>
    /\ pc = "input"
    /\ \E n \in 0..MaxHtmlLen :
          arg \in [1..n -> {"<h1>", "</h1>", "<h2>", "</h2>", "<h3>", "</h3>",
                            "t", "\n"}]
    /\ res = "none"

\* updatePreview's call of convertToFoldable (main.ts 5157) on the drawn HTML
CallConvertToFoldableAny ==
    /\ pc = "input"
    /\ res' = convertToFoldable(arg)
    /\ pc' = "done"
    /\ UNCHANGED <<projectState, archive, render, burstAccepted, viewMode,
                   scrollSyncLock, scrollSyncRaf, rafQueue, frameQueue,
                   editorTop, previewTop, scrollEvt, previewLineMap,
                   framesSinceAccept, lastEvent, echoAccepted, arg>>

SpecFoldAny == InitFoldAny /\ [][CallConvertToFoldableAny]_vars

(***************************************************************************)
(* C29: fold building conserves content.  The output of convertToFoldable  *)
(* with the added details, summary and fold-content markup removed holds   *)
(* every heading and every other fragment of the input exactly once and in *)
(* the original order: it is the input with nothing but white space        *)
(* removed.  Input without an h1-h3 heading is returned unchanged.         *)
(***************************************************************************)
C29_FoldConservesContent ==
    pc = "done" =>
        LET added(x) == x \in {DetailsOpen, "</summary>",
                               "<div class=\"fold-content\">", "</div>",
                               DetailsClose}
            kept(x) == ~added(x)
            solid(x) == ~IsSpace(x)
            stripped == SelectSeq(res, kept)
        IN  /\ SelectSeq(stripped, solid) = SelectSeq(arg, solid)
            /\ Len(stripped) <= Len(arg)
            /\ ScanHeadings(arg, 1) = <<>> => res = arg

\* text in front of a heading and a section body that loses its leading
\* line break
C29_Witness ==
    /\ pc = "done"
    /\ arg = <<"t", "<h1>", "</h1>", "\n", "t">>
    /\ res = <<"t", DetailsOpen, "<h1>", "</h1>", "</summary>",
               "<div class=\"fold-content\">", "t", "</div>", DetailsClose>>

(***************************************************************************)
(* The round trip editor line -> preview offset -> editor line: the offset *)
(* interpolatePreviewPosition returns, as the whole pixel the preview      *)
(* holds, handed to interpolateEditorLine (main.ts 4553, 4586)             *)
(***************************************************************************)
CallRoundTrip ==
    /\ pc = "input"
    /\ previewLineMap' = arg.map
    /\ LET top == interpolatePreviewPosition(arg.map, arg.line, arg.maxScroll)
       IN  res' = [top |-> top,
                   back |-> interpolateEditorLine(arg.map, RatFloor(top))]
    /\ pc' = "done"
    /\ UNCHANGED <<projectState, archive, render, burstAccepted, viewMode,
                   scrollSyncLock, scrollSyncRaf, rafQueue, frameQueue,
                   editorTop, previewTop, scrollEvt, framesSinceAccept,
                   lastEvent, echoAccepted, arg>>

SpecRoundTrip == InitInterp /\ [][CallRoundTrip]_vars

=============================================================================
